---- MODULE Spec2Model ----
(***************************************************************************)
(* A model of the cli-o coding assistant: the token-budgeted context       *)
(* manager (claude_clone/context/manager.py), the tool layer               *)
(* (clio/agent/tools.py), the IDE bridge (clio/ide_bridge.py) and the      *)
(* agent loop (clio/agent/core.py).                                        *)
(*                                                                         *)
(* Texts are sequences of characters (one-character strings, with a few    *)
(* multi-character chunks standing for a fixed run of characters, such as  *)
(* "Error:").  Paths are sequences of chunks whose concatenation is the    *)
(* path string: <<"/etc", "etera", "/y">> is "/etcetera/y"; a relative     *)
(* path starts with the chunk ".".                                         *)
(***************************************************************************)
EXTENDS Integers, Sequences, FiniteSets, TLC

\* ------------------------------------------------------------------ bounds

\* most highlights kept for one file
MaxPending == 2

\* token budget given to the ContextManager constructor
TokenLimit == 120

\* a further user turn is started only while the history holds at most this
\* many messages
MaxHistory == 2

\* ------------------------------------------------------------- variables

VARIABLES
    \* ContextManager
    files,        \* self.files: resolved path string -> content
    working_dir,  \* self.working_dir (the launch directory)
    ctxFs,        \* the file system the context manager reads
    ctxLast,      \* the last ContextManager operation and what it returned
    \* Agent.chat
    messages,     \* self.messages: the conversation history
    agentPc,      \* where Agent.chat stands: idle, call_provider, exec_tools, returned, raised
    iteration,    \* the local variable iteration of the turn under way
    toolIdx,      \* position of the for loop in message["tool_calls"] (1-based)
    turnResult,   \* what the last turn returned, or the exception it raised
    providerCalls, \* provider.chat calls made in the turn under way
    \* Tools and the IDE bridge
    disk,               \* the file system the tools act on: resolved path -> entry
    permission_callback, \* whether Tools was given a permission callback
    vscode_protocol,    \* whether Tools was given a VSCode protocol (clio vscode)
    ide_bridge,         \* the IDEBridge singleton: connected, ws, port
    connectTask,        \* where the one connect() task stands and what it returned
    pending_highlights, \* self.pending_highlights: resolved path -> list of edits
    toolLast,           \* the last tool call: its arguments, effects and result
    peerDecided,        \* resolved path -> how many of the file's pending edits the
                        \* IDE has accepted or rejected
    \* HistoryDatabase
    conversations,  \* the rows of table conversations: id -> start_time, starred
    nextId,         \* the id AUTOINCREMENT gives the next row
    dbLast          \* the last HistoryDatabase operation and the rows before it

ctxVars == <<files, working_dir, ctxFs, ctxLast>>

agentVars == <<messages, agentPc, iteration, toolIdx, turnResult, providerCalls>>

toolVars == <<disk, permission_callback, vscode_protocol, ide_bridge, connectTask,
              pending_highlights, toolLast, peerDecided>>

histVars == <<conversations, nextId, dbLast>>

vars == <<files, working_dir, ctxFs, ctxLast,
          messages, agentPc, iteration, toolIdx, turnResult, providerCalls,
          disk, permission_callback, vscode_protocol, ide_bridge, connectTask,
          pending_highlights, toolLast, peerDecided,
          conversations, nextId, dbLast>>

\* ------------------------------------------------------------ sequences

\* s starts with p (str.startswith)
IsPrefix(p, s) == Len(p) <= Len(s) /\ SubSeq(s, 1, Len(p)) = p

\* p occurs in s at position i (1-based)
OccursAt(p, s, i) == i + Len(p) - 1 <= Len(s) /\ SubSeq(s, i, i + Len(p) - 1) = p

\* `p in s` of two Python strings
Contains(s, p) == \E i \in 1..(Len(s) + 1) : OccursAt(p, s, i)

\* a context text: its name and the number of tokens cl100k_base encodes it to
Tok(n, t) == [text |-> t, ntokens |-> n]

RECURSIVE SumOver(_, _)
SumOver(f, S) ==
    IF S = {} THEN 0
    ELSE LET x == CHOOSE y \in S : TRUE IN f[x] + SumOver(f, S \ {x})

\* all orderings of a finite set, as sequences without repetition
RECURSIVE Orderings(_)
Orderings(S) ==
    IF S = {} THEN {<<>>}
    ELSE UNION {{<<x>> \o s : s \in Orderings(S \ {x})} : x \in S}

\* ---------------------------------------------------------------- paths

\* chunks that continue the name of the component before them
SuffixChunks == {"etera", "el", "aries"}

\* pathlib: Path.is_absolute
IsAbsolute(p) == p # <<>> /\ Head(p) # "."

\* pathlib: dir / p
Join(dir, p) == IF IsAbsolute(p) THEN p ELSE dir \o Tail(p)

RECURSIVE DropLastComponent(_)
DropLastComponent(acc) ==
    IF acc = <<>> THEN <<>>
    ELSE IF acc[Len(acc)] \in SuffixChunks
         THEN DropLastComponent(SubSeq(acc, 1, Len(acc) - 1))
         ELSE SubSeq(acc, 1, Len(acc) - 1)

RECURSIVE NormFrom(_, _)
NormFrom(acc, rest) ==
    IF rest = <<>> THEN acc
    ELSE IF Head(rest) = "/.." THEN NormFrom(DropLastComponent(acc), Tail(rest))
         ELSE NormFrom(Append(acc, Head(rest)), Tail(rest))

\* the process's current directory
Cwd == <<"/work">>

\* pathlib: Path(p).resolve() (no symbolic links in the modelled file system)
Resolve(p) == NormFrom(<<>>, Join(Cwd, p))

\* ------------------------------------------------- ContextManager: data

LaunchDir == <<"/launch">>

\* the regular files, directories and binary files of the modelled file system
CtxDirs ==
    {<<"/launch">>, <<"/work">>, <<"/launch", "/d">>, <<"/work", "/pkg">>, <<"/work", "/img">>}

CtxTextFiles ==
    {<<"/launch", "/a.txt">>, <<"/work", "/a.txt">>, <<"/work", "/d">>,
     <<"/work", "/pkg", "/m.py">>, <<"/work", "/pkg", "/n.py">>}

CtxBinaryFiles ==
    {<<"/work", "/pkg", "/img.bin">>}
      \cup {<<"/work", "/img", n>> : n \in {"/1.png", "/2.png", "/3.png", "/4.png", "/5.png", "/6.png"}}

\* the path strings a caller passes
CtxPaths ==
    {<<".", "/a.txt">>, <<"/launch", "/a.txt">>, <<"/work", "/a.txt">>, <<".", "/d">>,
     <<".", "/pkg">>, <<".", "/pkg", "/m.py">>, <<".", "/missing">>}

\* the folders and the files a caller of add_folder passes
FolderPaths == {<<".", "/pkg">>, <<".", "/img">>, <<".", "/a.txt">>, <<".", "/missing">>}

FolderFilePaths == {<<".", "/a.txt">>, <<".", "/d">>, <<".", "/pkg", "/m.py">>}

NoOp == [op |-> "none", path |-> <<>>, res |-> "none", before |-> <<>>,
         tokens |-> 0, added |-> 0, nerrors |-> 0, shown |-> 0, rt |-> FALSE, rtBefore |-> <<>>,
         prev |-> <<>>, late |-> 0, pattern |-> "", same |-> FALSE]

\* os.path.exists / Path.exists
CtxExists(fs, p) == NormFrom(<<>>, p) \in DOMAIN fs

\* --------------------------------------------- ContextManager: operations

\* ContextManager.count_tokens: len(self.encoding.encode(text))
count_tokens(text) == text.ntokens

\* ContextManager.get_total_tokens
get_total_tokens(fl) == SumOver([p \in DOMAIN fl |-> count_tokens(fl[p])], DOMAIN fl)

\* the candidate add_file settles on: the first one that exists, or <<>>
AddCandidate(fs, wd, path) ==
    IF IsAbsolute(path) /\ CtxExists(fs, path) THEN NormFrom(<<>>, path)
    ELSE IF CtxExists(fs, Join(wd, path)) THEN NormFrom(<<>>, Join(wd, path))
    ELSE IF CtxExists(fs, Join(Cwd, path)) THEN NormFrom(<<>>, Join(Cwd, path))
    ELSE IF CtxExists(fs, Join(Cwd, path)) THEN Resolve(path)  \* "as-is": relative to the cwd again
    ELSE <<>>

\* mutant of the budget check: no check at all
NoBudgetCheck(total, tokens) == FALSE

\* mutant of the budget check: the running total is left out
OverBudgetNewFileOnly(total, tokens) == tokens > TokenLimit

\* add_file's budget check: total_tokens = get_total_tokens() + tokens > token_limit
OverBudget(total, tokens) == total + tokens > TokenLimit

\* mutant of the key of an entry: the path string as the caller passed it
EntryKeyAsPassed(file_path, path) == path

\* the key of an entry: self.files[str(file_path)], the resolved candidate
EntryKey(file_path, path) == file_path

\* ContextManager.add_file as a function of the entries and the file system
add_file(fl, fs, wd, path) ==
    LET fp == AddCandidate(fs, wd, path)
        key == EntryKey(fp, path) IN
    IF fp = <<>> THEN [files |-> fl, res |-> "NotFound", tokens |-> 0]
    ELSE IF fs[fp].kind = "dir" THEN [files |-> fl, res |-> "NotAFile", tokens |-> 0]
    ELSE IF fs[fp].kind = "binary" THEN [files |-> fl, res |-> "UnreadableBinary", tokens |-> 0]
    ELSE LET content == fs[fp].content
             tokens == count_tokens(content)
         IN IF OverBudget(get_total_tokens(fl), tokens)
            THEN [files |-> fl, res |-> "BudgetExceeded", tokens |-> tokens]
            ELSE [files |-> [p \in DOMAIN fl \cup {key} |-> IF p = key THEN content ELSE fl[p]],
                  res |-> "Added", tokens |-> tokens]

\* mutant of remove_file's key: the key add_file would have used
RemoveKeyAsAdded(fs, wd, path) == AddCandidate(fs, wd, path)

\* the key remove_file looks up
RemoveKey(fs, wd, path) == Resolve(path)

\* Path.glob under a folder: "**/*" every descendant, "*" the direct children
Glob(fs, folder, pattern) ==
    {p \in DOMAIN fs :
        /\ Len(p) > Len(folder)
        /\ IsPrefix(folder, p)
        /\ pattern = "*" => Len(p) = Len(folder) + 1}

\* mutant of the loop of add_folder: the loop ends at the first failure
RECURSIVE AddEachUntilFailure(_, _, _, _, _)
AddEachUntilFailure(acc, fs, wd, order, i) ==
    IF i > Len(order) \/ acc.errors # <<>> THEN acc
    ELSE IF fs[order[i]].kind = "dir" THEN AddEachUntilFailure(acc, fs, wd, order, i + 1)
    ELSE LET r == add_file(acc.files, fs, wd, order[i]) IN
         AddEachUntilFailure(
                 [files |-> r.files,
                  added |-> IF r.res = "Added" THEN acc.added + 1 ELSE acc.added,
                  errors |-> IF r.res = "Added" THEN acc.errors ELSE Append(acc.errors, r.res),
                  late |-> acc.late],
                 fs, wd, order, i + 1)

\* the loop of add_folder over the matched paths, in the order given; late counts
\* the files added after an earlier file of the same call had failed
RECURSIVE AddEach(_, _, _, _, _)
AddEach(acc, fs, wd, order, i) ==
    IF i > Len(order) THEN acc
    ELSE IF fs[order[i]].kind = "dir" THEN AddEach(acc, fs, wd, order, i + 1)
    ELSE LET r == add_file(acc.files, fs, wd, order[i]) IN
         AddEach([files |-> r.files,
                  added |-> IF r.res = "Added" THEN acc.added + 1 ELSE acc.added,
                  errors |-> IF r.res = "Added" THEN acc.errors ELSE Append(acc.errors, r.res),
                  late |-> IF r.res = "Added" /\ acc.errors # <<>>
                           THEN acc.late + 1 ELSE acc.late],
                 fs, wd, order, i + 1)

\* ------------------------------------------------ ContextManager: actions

AddFile(path) ==
    LET r == add_file(files, ctxFs, working_dir, path) IN
    /\ files' = r.files
    /\ ctxLast' = [NoOp EXCEPT !.op = "add", !.path = path, !.res = r.res,
                               !.before = files, !.tokens = r.tokens,
                               !.same = LET fp == AddCandidate(ctxFs, working_dir, path) IN
                                        /\ fp \in DOMAIN files
                                        /\ ctxFs[fp].kind = "file"
                                        /\ ctxFs[fp].content = files[fp],
                               !.prev = IF ctxLast.op = "add" /\ ctxLast.res = "Added"
                                        THEN ctxLast.path ELSE <<>>]
    /\ UNCHANGED <<working_dir, ctxFs>>

RemoveFile(path) ==
    LET file_path == RemoveKey(ctxFs, working_dir, path) IN
    /\ IF file_path \in DOMAIN files
       THEN /\ files' = [p \in DOMAIN files \ {file_path} |-> files[p]]
            /\ ctxLast' = [NoOp EXCEPT !.op = "remove", !.path = path, !.res = "Removed",
                               !.before = files,
                               !.rt = (ctxLast.op = "add" /\ ctxLast.res = "Added"
                                        /\ ctxLast.path = path),
                               !.rtBefore = ctxLast.before]
       ELSE /\ files' = files
            /\ ctxLast' = [NoOp EXCEPT !.op = "remove", !.path = path, !.res = "NotInContext",
                               !.before = files,
                               !.rt = (ctxLast.op = "add" /\ ctxLast.res = "Added"
                                        /\ ctxLast.path = path),
                               !.rtBefore = ctxLast.before]
    /\ UNCHANGED <<working_dir, ctxFs>>

Clear ==
    /\ files' = <<>>
    /\ ctxLast' = [NoOp EXCEPT !.op = "clear", !.before = files]
    /\ UNCHANGED <<working_dir, ctxFs>>

AddFolder(path, pattern) ==
    LET folder_path == Resolve(path) IN
    /\ IF folder_path \notin DOMAIN ctxFs
       THEN /\ files' = files
            /\ ctxLast' = [NoOp EXCEPT !.op = "add_folder", !.path = path,
                               !.res = "FolderNotFound", !.before = files]
       ELSE IF ctxFs[folder_path].kind # "dir"
       THEN /\ files' = files
            /\ ctxLast' = [NoOp EXCEPT !.op = "add_folder", !.path = path,
                               !.res = "NotAFolder", !.before = files]
       ELSE \E order \in Orderings(Glob(ctxFs, folder_path, pattern)) :
              LET r == AddEach([files |-> files, added |-> 0, errors |-> <<>>, late |-> 0],
                               ctxFs, working_dir, order, 1) IN
              /\ files' = r.files
              /\ ctxLast' = [NoOp EXCEPT !.op = "add_folder", !.path = path,
                               !.res = "AddedFolder", !.before = files, !.pattern = pattern,
                               !.added = r.added, !.nerrors = Len(r.errors), !.late = r.late,
                               !.shown = IF Len(r.errors) < 5 THEN Len(r.errors) ELSE 5]
    /\ UNCHANGED <<working_dir, ctxFs>>

\* the environment rewrites a text file between two operations
CtxFileChanges(p, content) ==
    /\ ctxFs[p].kind = "file"
    /\ ctxFs[p].content # content
    /\ ctxFs' = [ctxFs EXCEPT ![p].content = content]
    /\ UNCHANGED <<files, working_dir, ctxLast>>

\* the file system at start: the kind and the text of every path
CtxFsInit ==
    [p \in CtxDirs \cup CtxTextFiles \cup CtxBinaryFiles |->
        IF p \in CtxDirs THEN [kind |-> "dir", content |-> Tok(0, "")]
        ELSE IF p \in CtxBinaryFiles THEN [kind |-> "binary", content |-> Tok(0, "")]
        ELSE IF p = <<"/launch", "/a.txt">> THEN [kind |-> "file", content |-> Tok(100, "a")]
        ELSE IF p = <<"/work", "/a.txt">> THEN [kind |-> "file", content |-> Tok(50, "b")]
        ELSE IF p = <<"/work", "/d">> THEN [kind |-> "file", content |-> Tok(20, "s")]
        ELSE IF p = <<"/work", "/pkg", "/m.py">> THEN [kind |-> "file", content |-> Tok(50, "c")]
        ELSE [kind |-> "file", content |-> Tok(TokenLimit + 1, "x")]]

\* a ContextManager nobody has used yet
CtxIdle ==
    /\ files = <<>>
    /\ working_dir = Cwd
    /\ ctxFs = CtxFsInit
    /\ ctxLast = NoOp

\* ------------------------------------------------------------ Agent: data

\* max_iterations of Agent.chat
max_iterations == 10

NoId == <<>>

UserMessage == [role |-> "user", content |-> "text", tool_calls |-> <<>>, tool_call_id |-> NoId]

\* the parameters each tool method requires and accepts
Required(name) ==
    CASE name = "read_file" -> {"path"}
      [] name = "write_file" -> {"path", "content"}
      [] name = "edit_file" -> {"path", "old_text", "new_text"}
      [] name = "execute_bash" -> {"command"}
      [] name = "list_directory" -> {}
      [] name = "grep_files" -> {"pattern"}
      [] name = "find_files" -> {}
      [] name = "web_search" -> {"query"}
      [] name = "web_fetch" -> {"url"}
      [] OTHER -> {}

Optional(name) ==
    CASE name = "execute_bash" -> {"timeout"}
      [] name = "list_directory" -> {"path"}
      [] name = "grep_files" -> {"path", "file_pattern"}
      [] name = "find_files" -> {"name_pattern", "path", "file_type"}
      [] name = "web_search" -> {"num_results"}
      [] name = "web_fetch" -> {"question"}
      [] OTHER -> {}

KnownTools ==
    {"read_file", "write_file", "edit_file", "execute_bash", "list_directory",
     "grep_files", "find_files", "web_search", "web_fetch"}

\* json.loads(function["arguments"]), {} when the text is no JSON: the keys of the object
ParseArguments(a) == IF a.valid THEN a.keys ELSE {}

\* Tools.execute_tool: self.<tool>(**arguments) raises TypeError when a required
\* parameter is missing or an unexpected one is given; otherwise the tool's text
execute_tool(tool_name, arguments) ==
    IF tool_name \notin KnownTools THEN [raised |-> FALSE, text |-> "Error: Unknown tool"]
    ELSE IF Required(tool_name) \subseteq arguments
            /\ arguments \subseteq (Required(tool_name) \cup Optional(tool_name))
         THEN [raised |-> FALSE, text |-> "tool output"]
         ELSE [raised |-> TRUE, text |-> "TypeError"]

\* the tool calls a model response may carry
CallListDir == [name |-> "list_directory", arguments |-> [valid |-> TRUE, keys |-> {}]]

CallRead == [name |-> "read_file", arguments |-> [valid |-> TRUE, keys |-> {"path"}]]

CallUnknown == [name |-> "no_such_tool", arguments |-> [valid |-> TRUE, keys |-> {}]]

CallBadJson == [name |-> "read_file", arguments |-> [valid |-> FALSE, keys |-> {}]]

Response(content, calls, finish_reason) ==
    [content |-> content, calls |-> calls, finish_reason |-> finish_reason]

\* the responses the provider may return: plain replies, replies without
\* content, tool calls, and tool calls under finish_reason "stop"
ProviderResponses ==
    {Response("text", <<>>, "stop"), Response("None", <<>>, "stop"), Response("", <<>>, "stop"),
     Response("text", <<>>, "length"), Response("None", <<>>, "tool_calls"),
     Response("None", <<CallListDir>>, "tool_calls"),
     Response("text", <<CallRead, CallUnknown>>, "tool_calls"),
     Response("None", <<CallBadJson>>, "tool_calls"),
     Response("None", <<CallListDir, CallBadJson>>, "tool_calls"),
     Response("None", <<CallListDir>>, "stop"),
     Response("text", <<CallRead, CallUnknown>>, "stop")}

\* the invocations of a tool-executed callback that Agent.chat has made: its
\* tool loop holds no such call, and Agent.__init__ takes no such callback
ToolExecutedCalls == <<>>

\* the provider gives every tool call of a response an id of its own
WithIds(calls, n) ==
    [k \in 1..Len(calls) |-> [id |-> <<n, k>>, name |-> calls[k].name, arguments |-> calls[k].arguments]]

\* --------------------------------------------------------- Agent: actions

\* mutant of the loop test: one round too many
LoopTestOffByOne(i) == i <= max_iterations

\* while iteration < max_iterations
LoopTest(i) == i < max_iterations

\* chat is entered: the user message is appended and the loop starts
StartTurn ==
    /\ agentPc \in {"idle", "returned", "raised"}
    /\ Len(messages) <= MaxHistory
    /\ messages' = Append(messages, UserMessage)
    /\ iteration' = 0
    /\ providerCalls' = 0
    /\ toolIdx' = 0
    /\ IF LoopTest(0)
       THEN agentPc' = "call_provider" /\ turnResult' = "none"
       ELSE agentPc' = "returned" /\ turnResult' = "Max iterations reached"

\* mutant of the failing provider call: the request is made again
ProviderRaisesRetried ==
    /\ agentPc = "call_provider"
    /\ iteration' = iteration + 1
    /\ providerCalls' = providerCalls + 1
    /\ agentPc' = IF LoopTest(iteration + 1) THEN "call_provider" ELSE "raised"
    /\ turnResult' = "TransportError"
    /\ UNCHANGED <<messages, toolIdx>>

\* provider.chat raises (the request fails): the exception leaves chat
ProviderRaises ==
    /\ agentPc = "call_provider"
    /\ iteration' = iteration + 1
    /\ providerCalls' = providerCalls + 1
    /\ agentPc' = "raised"
    /\ turnResult' = "TransportError"
    /\ UNCHANGED <<messages, toolIdx>>

\* provider.chat returns a response without choices: response["choices"][0] raises
ProviderEmptyChoices ==
    /\ agentPc = "call_provider"
    /\ iteration' = iteration + 1
    /\ providerCalls' = providerCalls + 1
    /\ agentPc' = "raised"
    /\ turnResult' = "IndexError"
    /\ UNCHANGED <<messages, toolIdx>>

\* provider.chat returns a message: it is appended, and the turn ends or the
\* tool loop starts
ProviderResponds(content, calls, finish_reason) ==
    /\ agentPc = "call_provider"
    /\ iteration' = iteration + 1
    /\ providerCalls' = providerCalls + 1
    /\ LET message == [role |-> "assistant", content |-> content,
                       tool_calls |-> WithIds(calls, iteration + 1), tool_call_id |-> NoId]
       IN /\ messages' = Append(messages, message)
          /\ IF finish_reason = "stop" \/ message.tool_calls = <<>>
             THEN /\ agentPc' = "returned"
                  /\ turnResult' = IF content = "None" \/ content = ""
                                   THEN "[No response from model]" ELSE content
                  /\ toolIdx' = 0
             ELSE /\ agentPc' = "exec_tools"
                  /\ turnResult' = "none"
                  /\ toolIdx' = 1

\* mutant of the for loop: the calls are taken last to first
CallAtReversed(message, idx) == message.tool_calls[Len(message.tool_calls) - idx + 1]

\* for tool_call in message["tool_calls"]: the call of round idx
CallAt(message, idx) == message.tool_calls[idx]

\* one round of the for loop: the tool runs and its result is appended as a
\* tool message; after the last one the while test decides
ExecuteToolCall ==
    /\ agentPc = "exec_tools"
    /\ LET tool_call == CallAt(messages[Len(messages) - (toolIdx - 1)], toolIdx)
           ncalls == Len(messages[Len(messages) - (toolIdx - 1)].tool_calls)
           result == execute_tool(tool_call.name, ParseArguments(tool_call.arguments))
       IN IF result.raised
          THEN /\ agentPc' = "raised"
               /\ turnResult' = result.text
               /\ UNCHANGED <<messages, toolIdx>>
          ELSE /\ messages' = Append(messages, [role |-> "tool", content |-> result.text,
                                                tool_calls |-> <<>>, tool_call_id |-> tool_call.id])
               /\ IF toolIdx < ncalls
                  THEN /\ toolIdx' = toolIdx + 1
                       /\ agentPc' = "exec_tools"
                       /\ turnResult' = "none"
                  ELSE /\ toolIdx' = 0
                       /\ IF LoopTest(iteration)
                          THEN agentPc' = "call_provider" /\ turnResult' = "none"
                          ELSE agentPc' = "returned" /\ turnResult' = "Max iterations reached"
    /\ UNCHANGED <<iteration, providerCalls>>

\* an Agent right after construction
AgentIdle ==
    /\ messages = <<>>
    /\ agentPc = "idle"
    /\ iteration = 0
    /\ toolIdx = 0
    /\ turnResult = "none"
    /\ providerCalls = 0

\* ------------------------------------------------------------ Tools: text

\* number of characters of a chunk of text
CharLen(c) == IF c = "Error:" THEN 6 ELSE 1

\* len() of a text
RECURSIVE StrLen(_)
StrLen(s) == IF s = <<>> THEN 0 ELSE CharLen(Head(s)) + StrLen(Tail(s))

\* what the escape \c stands for under the unicode_escape codec ("" : none,
\* the backslash and the character are kept)
EscapeOf(c) ==
    CASE c = "n" -> "NL"
      [] c = "t" -> "TAB"
      [] c = "\\" -> "\\"
      [] c = "a" -> "BEL"
      [] c = "b" -> "BS"
      [] OTHER -> ""

\* text.encode().decode('unicode_escape') from position i on; "raise" when the
\* codec raises (a backslash ends the text)
RECURSIVE DecodeFrom(_, _)
DecodeFrom(s, i) ==
    IF i > Len(s) THEN <<>>
    ELSE IF s[i] = "\\"
         THEN IF i = Len(s) THEN <<"raise">>
              ELSE IF EscapeOf(s[i + 1]) # ""
                   THEN <<EscapeOf(s[i + 1])>> \o DecodeFrom(s, i + 2)
                   ELSE <<"\\", s[i + 1]>> \o DecodeFrom(s, i + 2)
         ELSE IF s[i] = "é"
              THEN <<"Ã", "©">> \o DecodeFrom(s, i + 1)
              ELSE <<s[i]>> \o DecodeFrom(s, i + 1)

\* mutant of the escape decoding: the text is taken as it is
NoDecode(s) == s

\* the try/except around the decoding: the text as given when the codec raises
Decode(s) ==
    LET d == DecodeFrom(s, 1) IN
    IF d # <<>> /\ d[Len(d)] = "raise" THEN s ELSE d

\* str.find: the first position (1-based) at which old occurs in content
FindFirst(content, old) ==
    CHOOSE i \in 1..(Len(content) + 1) :
        /\ OccursAt(old, content, i)
        /\ \A j \in 1..(i - 1) : ~OccursAt(old, content, j)

\* content.replace(old, new, 1)
ReplaceFirst(content, old, new) ==
    IF ~Contains(content, old) THEN content
    ELSE LET i == FindFirst(content, old) IN
         SubSeq(content, 1, i - 1) \o new \o SubSeq(content, i + Len(old), Len(content))

\* str.count("\n")
RECURSIVE CountNewlines(_)
CountNewlines(s) ==
    IF s = <<>> THEN 0
    ELSE (IF Head(s) = "NL" THEN 1 ELSE 0) + CountNewlines(Tail(s))

\* the text after the last newline of s (all of s when it has none)
RECURSIVE AfterLastNewline(_)
AfterLastNewline(s) ==
    IF s = <<>> THEN <<>>
    ELSE IF s[Len(s)] = "NL" THEN <<>>
         ELSE Append(AfterLastNewline(SubSeq(s, 1, Len(s) - 1)), s[Len(s)])

\* ----------------------------------------------------------- Tools: paths

PNotes == <<"/home", "/u", "/notes.txt">>

POut == <<".", "/build", "/out.txt">>

PPasswd == <<"/etc", "/passwd">>

PHostsDots == <<"/home", "/..", "/etc", "/hosts">>

PLookalike == <<"/etc", "etera", "/y">>

PMissing == <<".", "/nope.txt">>

PHomeDir == <<"/home", "/u">>

PBinary == <<"/home", "/u", "/logo.png">>

WritePaths == {POut, PPasswd, PHostsDots, PLookalike, PHomeDir}

EditPaths == {PNotes, PPasswd, PMissing, PHomeDir, PBinary}

\* the directory holding p (Path.parent)
Parent(p) == DropLastComponent(p)

RECURSIVE Ancestors(_)
Ancestors(p) == IF Len(Parent(p)) = 0 THEN {} ELSE {Parent(p)} \cup Ancestors(Parent(p))

DiskPaths ==
    LET leaves == {Resolve(p) : p \in WritePaths \cup EditPaths} IN
    leaves \cup UNION {Ancestors(p) : p \in leaves}

Absent == [kind |-> "none", content |-> <<>>]

Dir == [kind |-> "dir", content |-> <<>>]

TextFile(content) == [kind |-> "file", content |-> content]

\* protected_dirs of write_file
protected_dirs ==
    <<(<<"/etc">>), (<<"/boot">>), (<<"/sys">>), (<<"/proc">>), (<<"/dev">>),
      (<<"/usr", "/bin">>), (<<"/usr", "/sbin">>), (<<"/bin">>), (<<"/sbin">>)>>

\* mutant of the safety check: the path as given is tested, not the resolved one
BlockingDirOfRawPath(path, file_path) ==
    LET hits == {i \in 1..Len(protected_dirs) : IsPrefix(protected_dirs[i], path)} IN
    IF hits = {} THEN <<>>
    ELSE protected_dirs[CHOOSE i \in hits : \A j \in hits : i <= j]

\* the first protected directory str(file_path) starts with, <<>> when none
BlockingDir(path, file_path) ==
    LET hits == {i \in 1..Len(protected_dirs) : IsPrefix(protected_dirs[i], file_path)} IN
    IF hits = {} THEN <<>>
    ELSE protected_dirs[CHOOSE i \in hits : \A j \in hits : i <= j]

\* -------------------------------------------------------- Tools: commands

UpperCase == <<"A", "B", "C", "D", "E", "F", "G", "H", "I", "J", "K", "L", "M",
               "N", "O", "P", "Q", "R", "S", "T", "U", "V", "W", "X", "Y", "Z">>

LowerCase == <<"a", "b", "c", "d", "e", "f", "g", "h", "i", "j", "k", "l", "m",
               "n", "o", "p", "q", "r", "s", "t", "u", "v", "w", "x", "y", "z">>

\* str.lower, one character
LowerChar(c) ==
    IF \E i \in 1..26 : UpperCase[i] = c
    THEN LowerCase[CHOOSE i \in 1..26 : UpperCase[i] = c]
    ELSE c

NotSpace(c) == c # " "

\* text.lower().replace(" ", "")
LowerNoSpaces(s) == SelectSeq([i \in 1..Len(s) |-> LowerChar(s[i])], NotSpace)

\* mutant of the list: the first pattern lost its path
dangerous_patterns_rm_any ==
    <<<<"r", "m", " ", "-", "r", "f">>,
      <<"r", "m", " ", "-", "r", "f", " ", "/", "*">>,
      <<"r", "m", " ", "-", "r", "f", " ", "~">>,
      <<"r", "m", " ", "-", "r", "f", " ", "$", "H", "O", "M", "E">>,
      <<">", " ", "/", "d", "e", "v", "/", "s", "d", "a">>,
      <<"m", "k", "f", "s", ".">>,
      <<"d", "d", " ", "i", "f", "=">>,
      <<":", "(", ")", "{", " ", ":", "|", ":", "&", " ", "}", ";", ":">>,
      <<"c", "h", "m", "o", "d", " ", "-", "R", " ", "7", "7", "7", " ", "/">>,
      <<"/", "e", "t", "c", "/", "p", "a", "s", "s", "w", "d">>,
      <<"/", "e", "t", "c", "/", "s", "h", "a", "d", "o", "w">>,
      <<"c", "u", "r", "l", " ", "|", " ", "b", "a", "s", "h">>,
      <<"w", "g", "e", "t", " ", "|", " ", "s", "h">>>>

dangerous_patterns ==
    <<<<"r", "m", " ", "-", "r", "f", " ", "/">>,
      <<"r", "m", " ", "-", "r", "f", " ", "/", "*">>,
      <<"r", "m", " ", "-", "r", "f", " ", "~">>,
      <<"r", "m", " ", "-", "r", "f", " ", "$", "H", "O", "M", "E">>,
      <<">", " ", "/", "d", "e", "v", "/", "s", "d", "a">>,
      <<"m", "k", "f", "s", ".">>,
      <<"d", "d", " ", "i", "f", "=">>,
      <<":", "(", ")", "{", " ", ":", "|", ":", "&", " ", "}", ";", ":">>,
      <<"c", "h", "m", "o", "d", " ", "-", "R", " ", "7", "7", "7", " ", "/">>,
      <<"/", "e", "t", "c", "/", "p", "a", "s", "s", "w", "d">>,
      <<"/", "e", "t", "c", "/", "s", "h", "a", "d", "o", "w">>,
      <<"c", "u", "r", "l", " ", "|", " ", "b", "a", "s", "h">>,
      <<"w", "g", "e", "t", " ", "|", " ", "s", "h">>>>

\* pattern_check of each pattern
PatternChecks == [i \in 1..Len(dangerous_patterns) |-> LowerNoSpaces(dangerous_patterns[i])]

\* the patterns the command matches, by position in the list
MatchingPatterns(command) ==
    LET cmd_lower == LowerNoSpaces(command) IN
    {i \in 1..Len(dangerous_patterns) : Contains(cmd_lower, PatternChecks[i])}

CmdRmRfRoot == <<"r", "m", " ", "-", "r", "f", " ", "/">>

CmdRmRfBuild == <<"r", "m", " ", "-", "r", "f", " ", ".", "/", "b", "u", "i", "l", "d">>

CmdRmRfRootUpper == <<"R", "M", " ", " ", "-", "R", "F", " ", "/">>

CmdLs == <<"l", "s", " ", "-", "l">>

CmdCatPasswd == <<"c", "a", "t", " ", "/", "e", "t", "c", "/", "p", "a", "s", "s", "w", "d">>

Commands == {CmdRmRfRoot, CmdRmRfBuild, CmdRmRfRootUpper, CmdLs, CmdCatPasswd}

\* rm<TAB>-rf /
CmdRmRfRootTab == <<"r", "m", "\t", "-", "r", "f", " ", "/">>

\* ls<NEWLINE>-l
CmdLsNewline == <<"l", "s", "\n", "-", "l">>

\* the commands where the filter's treatment of white space is watched
BashCommands == Commands \cup {CmdRmRfRootTab, CmdLsNewline}

\* mutant of the safety check: no command is held back
NoCommandHits == [command \in BashCommands |-> {}]

\* the safety check of execute_bash on each command
CommandHits == [command \in BashCommands |-> MatchingPatterns(command)]

\* how a spawned process ends: in time or not, with stdout, stderr, exit code
ProcessOutcomes ==
    { [timed_out |-> TRUE, out |-> FALSE, err |-> FALSE, rc |-> 0],
      [timed_out |-> FALSE, out |-> FALSE, err |-> FALSE, rc |-> 0],
      [timed_out |-> FALSE, out |-> TRUE, err |-> TRUE, rc |-> 1] }

\* ------------------------------------------------------------ Tools: data

\* texts handed to write_file
WriteContents == {<<"b", "\\", "n">>}

\* edit_file calls: path, old_text, new_text
EditCalls ==
    { <<PNotes, (<<"a">>), (<<"b">>)>>,
      <<PNotes, (<<"a", "\\", "n", "b">>), (<<"b">>)>>,
      <<PNotes, (<<"q">>), (<<"b">>)>>,
      <<PPasswd, (<<"a">>), (<<"b">>)>>,
      <<PMissing, (<<"a">>), (<<"b">>)>>,
      <<PBinary, (<<"a">>), (<<"b">>)>>,
      <<PHomeDir, (<<>>), (<<"a">>)>> }

\* the contents written and the edits made where the round trip through the
\* file is watched: text with a repeated character, a non-ASCII character, a
\* carriage return, a two-character escape
FileContents == {<<"a", "NL", "a">>, <<"é">>, <<"a", "CR", "b">>, <<"b", "\\", "n">>}

FileEditCalls ==
    { <<PNotes, (<<"a">>), (<<"b">>)>>,
      <<PNotes, (<<"a">>), (<<"é">>)>>,
      <<PNotes, (<<"q">>), (<<"b">>)>> }

\* a bridge whose connect() has returned true
ConnectedBridge == [connected |-> TRUE, ws |-> "open", port |-> "7000"]

\* edit_file calls made while the bridge is watched
BridgeEditCalls ==
    { <<PNotes, (<<"a">>), (<<"b">>)>>,
      <<PNotes, (<<"b">>), (<<"\\", "n">>)>> }

\* what notes.txt may hold at the start
NotesContents == {<<"a", "NL", "b">>, <<"Error:", "a">>}

DiskInit(notes) ==
    [p \in DiskPaths |->
        CASE p = Resolve(PNotes) -> TextFile(notes)
          [] p = Resolve(PPasswd) -> TextFile(<<"a">>)
          [] p = Resolve(PBinary) -> [kind |-> "binary", content |-> <<>>]
          [] p \in {<<"/home">>, <<"/home", "/u">>, <<"/etc">>, Cwd} -> Dir
          [] OTHER -> Absent]

NoMsg == [type |-> "none"]

NoCall ==
    [tool |-> "none", path |-> <<>>, resolved |-> <<>>, old_text |-> <<>>,
     new_text |-> <<>>, command |-> <<>>, result |-> <<>>, gate |-> 0, answer |-> "none",
     spawned |-> FALSE, timed_out |-> FALSE, killed |-> FALSE, send |-> "none",
     sent |-> NoMsg, resent |-> 0, vscode |-> NoMsg,
     before |-> <<>>, connect |-> "none", raw |-> <<>>, delegated |-> <<>>,
     response |-> "none"]

NoBridge == [connected |-> FALSE, ws |-> "None", port |-> "None"]

NoTask == [pc |-> "unstarted", returned |-> "none", why |-> "none",
           src |-> [env |-> "none", lock |-> "none"]]

\* what the environment offers discover_port: CLIO_IDE_PORT and the lock file
PortSources ==
    { [env |-> "unset", lock |-> "missing"],
      [env |-> "7000", lock |-> "7001"],
      [env |-> "unset", lock |-> "corrupt"],
      [env |-> "abc", lock |-> "noport"] }

\* ------------------------------------------------------ Tools: operations

\* Tools.request_permission: the callback's answer, or approval without one
AlwaysGranted(callback, answer) == TRUE

request_permission(callback, answer) == IF callback THEN answer ELSE TRUE

\* what a text-mode read (open(..., 'r'), newline=None) returns for the
\* characters of a file: "\r\n" and a lone "\r" come back as "\n"
RECURSIVE UniversalNewlines(_)
UniversalNewlines(s) ==
    IF s = <<>> THEN <<>>
    ELSE IF Head(s) = "CR"
         THEN IF Len(s) > 1 /\ s[2] = "NL"
              THEN <<"NL">> \o UniversalNewlines(Tail(Tail(s)))
              ELSE <<"NL">> \o UniversalNewlines(Tail(s))
         ELSE <<Head(s)>> \o UniversalNewlines(Tail(s))

\* Tools.read_file, as a text
read_file(d, path) ==
    LET file_path == Resolve(path) IN
    CASE d[file_path].kind = "none" -> <<"Error:", " File not found: ">>
      [] d[file_path].kind = "binary" -> <<"Error:", " Cannot read binary file: ">>
      [] d[file_path].kind = "dir" -> <<"Error reading file: ">>
      [] OTHER -> UniversalNewlines(d[file_path].content)

\* file_path.parent.mkdir(parents=True, exist_ok=True)
MkdirParents(d, file_path) ==
    [p \in DOMAIN d |->
        IF p \in Ancestors(file_path) /\ d[p].kind = "none" THEN Dir ELSE d[p]]

\* open(file_path, 'w') raises on a directory
OpenForWriteRaises(d, file_path) == d[file_path].kind = "dir"

\* open(file_path, 'w') and write
WriteText(d, file_path, content) == [d EXCEPT ![file_path] = TextFile(content)]

\* mutant of discover_port: the lock file is read first
DiscoverLockFirst(src) ==
    IF src.lock \in {"7000", "7001"} THEN src.lock
    ELSE IF src.env \in {"7000", "7001"} THEN src.env
    ELSE "None"

\* IDEBridge.discover_port
discover_port(src) ==
    IF src.env # "unset" /\ src.env \in {"7000", "7001"} THEN src.env
    ELSE IF src.lock = "missing" THEN "None"
    ELSE IF src.lock \in {"7000", "7001"} THEN src.lock
    ELSE "None"

\* mutant of send: a failure is not noted
SendIgnoresFailure(b, sendOk) == b

\* IDEBridge.send: the bridge after a message was handed to the socket, which
\* took it (sendOk) or raised
send(b, sendOk) ==
    IF b.ws = "None" \/ ~b.connected THEN b
    ELSE [b EXCEPT !.connected = IF sendOk THEN b.connected ELSE FALSE]

\* mutant of the timeout handler: the process is left running
OnTimeoutNoKill(call) ==
    [call EXCEPT !.spawned = TRUE, !.timed_out = TRUE,
                 !.result = <<"Error:", " Command timed out after ">>]

\* except asyncio.TimeoutError: process.kill() and the Timeout result
OnTimeout(call) ==
    [call EXCEPT !.spawned = TRUE, !.timed_out = TRUE, !.killed = TRUE,
                 !.result = <<"Error:", " Command timed out after ">>]

\* mutant of is_connected: a port was found
PortKnown(b) == b.port # "None"

\* IDEBridge.is_connected
is_connected(b) == b.connected

\* the range start of an edit: line and character of the first occurrence
RangeStart(content, old) ==
    LET before == SubSeq(content, 1, FindFirst(content, old) - 1) IN
    [line |-> CountNewlines(before), character |-> StrLen(AfterLastNewline(before))]

\* the range end edit_file sends in VSCode mode (measured on old_text)
RangeEndOld(content, old) ==
    LET start == RangeStart(content, old) IN
    IF CountNewlines(old) > 0
    THEN [line |-> start.line + CountNewlines(old),
          character |-> StrLen(AfterLastNewline(old))]
    ELSE [line |-> start.line, character |-> start.character + StrLen(old)]

\* the range end edit_file highlights over the bridge (measured on new_text)
RangeEndNew(content, old, new) ==
    LET start == RangeStart(content, old) IN
    IF CountNewlines(new) > 0
    THEN [line |-> start.line + CountNewlines(new),
          character |-> StrLen(AfterLastNewline(new))]
    ELSE [line |-> start.line, character |-> start.character + StrLen(new)]

\* what a finished command leaves on the disk
RunCommand(d, command) ==
    IF command = CmdRmRfBuild
    THEN [p \in DOMAIN d |-> IF IsPrefix(Resolve(<<".", "/build">>), p) THEN Absent ELSE d[p]]
    ELSE d

\* the result text of a command that ran to its end
CommandResult(out, err, rc) ==
    LET parts == (IF out THEN <<"Output:">> ELSE <<>>)
                 \o (IF err THEN <<"Error:">> ELSE <<>>)
                 \o (IF rc # 0 THEN <<"Exit code: ">> ELSE <<>>)
    IN IF parts = <<>> THEN <<"Command completed successfully">> ELSE parts

\* --------------------------------------------------------- Tools: actions

Call(tool, path) ==
    [NoCall EXCEPT !.tool = tool, !.path = path, !.resolved = Resolve(path),
                   !.before = disk, !.connect = connectTask.returned]

\* what the permission callback said, "auto" when there is none to ask
Answer(answer) == IF ~permission_callback THEN "auto" ELSE IF answer THEN "yes" ELSE "no"

\* Tools.write_file(path, content); answer is what the callback says if asked
WriteFile(path, content, answer) ==
    LET file_path == Resolve(path)
        protected == BlockingDir(path, file_path)
        call == [Call("write_file", path) EXCEPT !.raw = <<content>>]
        made == MkdirParents(disk, file_path)
    IN
    /\ IF protected # <<>>
       THEN /\ toolLast' = [call EXCEPT
                   !.result = <<"BLOCKED: Cannot write to system directory ">> \o protected]
            /\ UNCHANGED disk
       ELSE IF ~request_permission(permission_callback, answer)
       THEN /\ toolLast' = [call EXCEPT !.gate = 1,
                   !.answer = Answer(answer),
                   !.result = <<"Permission denied">>]
            /\ UNCHANGED disk
       ELSE IF OpenForWriteRaises(made, file_path)
       THEN /\ toolLast' = [call EXCEPT !.gate = 1,
                   !.answer = Answer(answer),
                   !.result = <<"Error writing file: ">>]
            /\ disk' = made
       ELSE /\ toolLast' = [call EXCEPT !.gate = 1,
                   !.answer = Answer(answer),
                   !.result = <<"Successfully wrote to ">>]
            /\ disk' = WriteText(made, file_path, Decode(content))
    /\ UNCHANGED <<peerDecided, permission_callback, vscode_protocol, ide_bridge, connectTask,
                   pending_highlights>>

\* mutant of the batch: only the edit of the call
BatchOfOne(pending, current_edit) == <<current_edit>>

\* self.pending_highlights[file_path_str].append(current_edit): the batch sent
Batch(pending, current_edit) == Append(pending, current_edit)

\* Tools.edit_file(path, old_text, new_text); answer is what the callback says
\* if asked, sendOk whether the socket takes the message if one is sent
EditFile(path, old_raw, new_raw, answer, sendOk) ==
    LET old_text == Decode(old_raw)
        new_text == Decode(new_raw)
        content == read_file(disk, path)
        file_path == Resolve(path)
        call == [Call("edit_file", path) EXCEPT !.old_text = old_text, !.new_text = new_text,
                                                !.raw = <<old_raw, new_raw>>]
        new_content == ReplaceFirst(content, old_text, new_text)
        asked == [call EXCEPT !.gate = 1, !.answer = Answer(answer)]
        made == MkdirParents(disk, file_path)
    IN
    /\ IF IsPrefix(<<"Error:">>, content)
       THEN /\ toolLast' = [call EXCEPT !.result = content]
            /\ UNCHANGED <<disk, ide_bridge, pending_highlights>>
       ELSE IF ~Contains(content, old_text)
       THEN /\ toolLast' = [call EXCEPT
                   !.result = <<"Error:", " Text not found in file: ">> \o old_text \o <<"...">>]
            /\ UNCHANGED <<disk, ide_bridge, pending_highlights>>
       ELSE IF vscode_protocol
       THEN /\ toolLast' = [call EXCEPT
                   !.vscode = [type |-> "edit", file |-> file_path,
                               start |-> RangeStart(content, old_text),
                               end |-> RangeEndOld(content, old_text),
                               newText |-> new_text],
                   !.result = <<"Successfully edited ">>]
            /\ UNCHANGED <<disk, ide_bridge, pending_highlights>>
       ELSE IF is_connected(ide_bridge)
       THEN IF OpenForWriteRaises(disk, file_path)
            THEN /\ toolLast' = [call EXCEPT !.result = <<"Error editing file: ">>]
                 /\ UNCHANGED <<disk, ide_bridge, pending_highlights>>
            ELSE LET current_edit ==
                         [start |-> RangeStart(content, old_text),
                          end |-> RangeEndNew(content, old_text, new_text),
                          oldText |-> old_text, newText |-> new_text]
                     edits == Batch(pending_highlights[file_path], current_edit)
                 IN
                 /\ Len(pending_highlights[file_path]) < MaxPending
                 /\ disk' = WriteText(disk, file_path, new_content)
                 /\ pending_highlights' = [pending_highlights EXCEPT ![file_path] = edits]
                 /\ ide_bridge' = send(ide_bridge, sendOk)
                 /\ toolLast' = [call EXCEPT
                        !.resent = IF ide_bridge.ws # "None" /\ sendOk
                                   THEN peerDecided[file_path] ELSE 0,
                        !.send = IF ide_bridge.ws = "None" THEN "none"
                                 ELSE IF sendOk THEN "ok" ELSE "failed",
                        !.sent = IF ide_bridge.ws # "None" /\ sendOk
                                 THEN [type |-> "proposeDiff", file |-> file_path,
                                       edits |-> edits]
                                 ELSE NoMsg,
                        !.result = <<"Successfully edited ", " (hover over green highlight)">>]
       ELSE IF ~request_permission(permission_callback, answer)
       THEN /\ toolLast' = [asked EXCEPT !.result = <<"Permission denied">>]
            /\ UNCHANGED <<disk, ide_bridge, pending_highlights>>
       ELSE IF OpenForWriteRaises(made, file_path)
       THEN /\ toolLast' = [asked EXCEPT !.result = <<"Error editing file: ">>]
            /\ disk' = made
            /\ UNCHANGED <<ide_bridge, pending_highlights>>
       ELSE /\ toolLast' = [asked EXCEPT !.result = <<"Successfully edited ">>]
            /\ disk' = WriteText(made, file_path, new_content)
            /\ UNCHANGED <<ide_bridge, pending_highlights>>
    /\ UNCHANGED <<peerDecided, permission_callback, vscode_protocol, connectTask>>

\* Tools.execute_bash(command); timed_out, out, err, rc are what the process does
ExecuteBash(command, answer, timed_out, out, err, rc) ==
    LET call == [NoCall EXCEPT !.tool = "execute_bash", !.command = command,
                               !.before = disk, !.connect = connectTask.returned]
        asked == [call EXCEPT !.gate = 1, !.answer = Answer(answer)]
        hits == CommandHits[command]
    IN
    /\ IF hits # {}
       THEN /\ toolLast' = [call EXCEPT !.result =
                   <<"BLOCKED: Command contains potentially dangerous pattern ">>
                   \o dangerous_patterns[CHOOSE i \in hits : \A j \in hits : i <= j]]
            /\ UNCHANGED disk
       ELSE IF ~request_permission(permission_callback, answer)
       THEN /\ toolLast' = [asked EXCEPT !.result = <<"Permission denied">>]
            /\ UNCHANGED disk
       ELSE IF timed_out
       THEN /\ toolLast' = OnTimeout(asked)
            /\ UNCHANGED disk
       ELSE /\ toolLast' = [asked EXCEPT !.spawned = TRUE,
                   !.result = CommandResult(out, err, rc)]
            /\ disk' = RunCommand(disk, command)
    /\ UNCHANGED <<peerDecided, permission_callback, vscode_protocol, ide_bridge, connectTask,
                   pending_highlights>>

\* the patterns handed to grep_files and the name patterns handed to find_files
SearchPatterns == {<<"T", "O", "D", "O">>, <<"/", "e", "t", "c", "/", "p", "a", "s", "s", "w", "d">>}

\* cmd of grep_files, up to the pattern; the rest of the f-string (the options,
\* the path ".", the grep fallback) holds none of the dangerous patterns
GrepCmd(pattern) == <<"r", "g", " ", "'">> \o pattern \o <<"'">>

\* cmd of find_files, up to the name pattern
FindCmd(name_pattern) ==
    <<"f", "i", "n", "d", " ", "-", "n", "a", "m", "e", " ", "'">> \o name_pattern \o <<"'">>

\* the safety check of execute_bash on the commands the search tools build
SearchHits ==
    [command \in {GrepCmd(s) : s \in SearchPatterns} \cup {FindCmd(s) : s \in SearchPatterns}
        |-> MatchingPatterns(command)]

\* what execute_bash(cmd, timeout=10) returns to the search tool
DelegatedResult(command, answer, o) ==
    LET hits == SearchHits[command]
        parts == (IF o.out # <<>> THEN <<"Output:", "NL">> \o o.out ELSE <<>>)
                 \o (IF o.rc # 0 THEN <<"Exit code: ">> ELSE <<>>)
    IN IF hits # {}
       THEN <<"BLOCKED: Command contains potentially dangerous pattern ">>
               \o dangerous_patterns[CHOOSE i \in hits : \A j \in hits : i <= j]
       ELSE IF ~request_permission(permission_callback, answer) THEN <<"Permission denied">>
       ELSE IF o.timed_out THEN <<"Error:", " Command timed out after ">>
       ELSE IF parts = <<>> THEN <<"Command completed successfully">> ELSE parts

\* if "Error:" in result or not result.strip()
TakenForNoMatches(result) == Contains(result, <<"Error:">>) \/ result = <<>>

\* Tools.grep_files(pattern) and Tools.find_files(name_pattern)
SearchFiles(tool, pattern, answer, o) ==
    LET cmd == IF tool = "grep_files" THEN GrepCmd(pattern) ELSE FindCmd(pattern)
        result == DelegatedResult(cmd, answer, o)
        hits == SearchHits[cmd]
        asked == hits = {}
        ran == asked /\ request_permission(permission_callback, answer)
    IN
    /\ toolLast' = [NoCall EXCEPT
           !.tool = tool, !.command = cmd, !.before = disk,
           !.connect = connectTask.returned, !.raw = <<o.out>>,
           !.gate = IF asked THEN 1 ELSE 0,
           !.answer = IF asked THEN Answer(answer) ELSE "none",
           !.spawned = ran, !.timed_out = ran /\ o.timed_out, !.killed = ran /\ o.timed_out,
           !.delegated = result,
           !.result = IF TakenForNoMatches(result)
                      THEN IF tool = "grep_files"
                           THEN <<"No matches found for pattern ">>
                           ELSE <<"No files found matching pattern ">>
                      ELSE result]
    /\ UNCHANGED <<disk, peerDecided, permission_callback, vscode_protocol, ide_bridge,
                   connectTask, pending_highlights>>

\* IDEBridge.connect up to its first await: the port is looked up
ConnectStart(src) ==
    /\ connectTask.pc = "unstarted"
    /\ ~vscode_protocol
    /\ ide_bridge' = [ide_bridge EXCEPT !.port = discover_port(src)]
    /\ connectTask' = IF discover_port(src) = "None"
                      THEN [connectTask EXCEPT !.pc = "done", !.returned = "false",
                                               !.why = "no port", !.src = src]
                      ELSE [connectTask EXCEPT !.pc = "opening", !.src = src]
    /\ UNCHANGED <<disk, peerDecided, permission_callback, vscode_protocol, pending_highlights, toolLast>>

\* websockets.connect(uri) returns or raises; reachable is whether a server listens
ConnectOpen(reachable) ==
    /\ connectTask.pc = "opening"
    /\ IF reachable
       THEN /\ ide_bridge' = [ide_bridge EXCEPT !.ws = "open", !.connected = TRUE]
            /\ connectTask' = [connectTask EXCEPT !.pc = "hello"]
       ELSE /\ ide_bridge' = [ide_bridge EXCEPT !.ws = "None", !.connected = FALSE]
            /\ connectTask' = [connectTask EXCEPT !.pc = "done", !.returned = "false", !.why = "unreachable"]
    /\ UNCHANGED <<disk, peerDecided, permission_callback, vscode_protocol, pending_highlights, toolLast>>

\* self.send of the connect message
ConnectHello(sendOk) ==
    /\ connectTask.pc = "hello"
    /\ ide_bridge' = send(ide_bridge, sendOk)
    /\ connectTask' = [connectTask EXCEPT !.pc = "waiting"]
    /\ UNCHANGED <<disk, peerDecided, permission_callback, vscode_protocol, pending_highlights, toolLast>>

\* self.ws.recv() returns a message of the given type, or raises
ConnectRecv(response) ==
    /\ connectTask.pc = "waiting"
    /\ CASE response = "connected" ->
              /\ connectTask' = [connectTask EXCEPT !.pc = "done", !.returned = "true", !.why = "connected"]
              /\ UNCHANGED ide_bridge
         [] response = "raise" ->
              /\ connectTask' = [connectTask EXCEPT !.pc = "done", !.returned = "false", !.why = "recv raised"]
              /\ ide_bridge' = [ide_bridge EXCEPT !.ws = "None", !.connected = FALSE]
         [] OTHER ->
              /\ connectTask' = [connectTask EXCEPT !.pc = "done", !.returned = "false", !.why = "not greeted"]
              /\ UNCHANGED ide_bridge
    /\ UNCHANGED <<disk, peerDecided, permission_callback, vscode_protocol, pending_highlights, toolLast>>

\* open_diff after its send: wait_for(self.ws.recv(), 30.0), json.loads and the
\* two types looked at; only asyncio.TimeoutError is caught
AwaitDiff(response) ==
    CASE response = "diffAccepted" -> <<"True">>
      [] response = "diffRejected" -> <<"False">>
      [] response = "timeout" -> <<"False">>
      [] response = "closed" -> <<"raised ConnectionClosed">>
      [] response = "not json" -> <<"raised JSONDecodeError">>
      [] OTHER -> <<"False">>

\* IDEBridge.open_diff
OpenDiff(path, sendOk, response) ==
    LET call == Call("open_diff", path) IN
    /\ IF ~ide_bridge.connected
       THEN /\ toolLast' = [call EXCEPT !.result = <<"False">>]
            /\ UNCHANGED ide_bridge
       ELSE /\ ide_bridge' = send(ide_bridge, sendOk)
            /\ toolLast' = [call EXCEPT
                   !.send = IF sendOk THEN "ok" ELSE "failed",
                   !.sent = IF sendOk THEN [type |-> "openDiff", file |-> Resolve(path)]
                            ELSE NoMsg,
                   !.response = response,
                   !.result = AwaitDiff(response)]
    /\ UNCHANGED <<disk, peerDecided, permission_callback, vscode_protocol, connectTask,
                   pending_highlights>>

\* the IDE accepts or rejects the edits proposed for a file: a diffAccepted or
\* diffRejected message arrives on the socket, which nothing reads after the
\* handshake
PeerDecides(file_path) ==
    /\ ide_bridge.ws = "open"
    /\ pending_highlights[file_path] # <<>>
    /\ peerDecided' = [peerDecided EXCEPT ![file_path] = Len(pending_highlights[file_path])]
    /\ UNCHANGED <<disk, permission_callback, vscode_protocol, ide_bridge, connectTask,
                   pending_highlights, toolLast>>

\* the tools and the bridge at rest (specifications that do not exercise them)
ToolsIdle ==
    /\ disk = DiskInit(<<"a", "NL", "b">>)
    /\ permission_callback = TRUE
    /\ vscode_protocol = FALSE
    /\ ide_bridge = NoBridge
    /\ connectTask = NoTask
    /\ pending_highlights = [p \in DiskPaths |-> <<>>]
    /\ toolLast = NoCall
    /\ peerDecided = [p \in DiskPaths |-> 0]

\* -------------------------------------------------- HistoryDatabase

\* conversations created in one run of the model
MaxConversations == 3

\* the values of keep_recent the callers pass
KeepRecents == {0, 1, 2}

NoDbOp == [op |-> "none", id |-> 0, keep_recent |-> 0, before |-> <<>>, deleted |-> 0]

\* the rows the query of cleanup_old_conversations returns: ORDER BY and LIMIT
\* close the whole UNION, so these are the keep_recent latest rows of all,
\* starred or not
KeepIds(rows, keep_recent) ==
    {id \in DOMAIN rows :
        Cardinality({j \in DOMAIN rows : rows[j].start_time > rows[id].start_time})
            < keep_recent}

\* HistoryDatabase.create_conversation: a row with the time of the call
CreateConversation ==
    /\ nextId <= MaxConversations
    /\ conversations' = [id \in DOMAIN conversations \cup {nextId} |->
                            IF id = nextId THEN [start_time |-> nextId, starred |-> FALSE]
                            ELSE conversations[id]]
    /\ nextId' = nextId + 1
    /\ dbLast' = [NoDbOp EXCEPT !.op = "create", !.id = nextId, !.before = conversations]

\* HistoryDatabase.star_conversation
StarConversation(id) ==
    /\ conversations' = [i \in DOMAIN conversations |->
                            IF i = id THEN [conversations[i] EXCEPT !.starred = TRUE]
                            ELSE conversations[i]]
    /\ dbLast' = [NoDbOp EXCEPT !.op = "star", !.id = id, !.before = conversations]
    /\ UNCHANGED nextId

\* HistoryDatabase.unstar_conversation
UnstarConversation(id) ==
    /\ conversations' = [i \in DOMAIN conversations |->
                            IF i = id THEN [conversations[i] EXCEPT !.starred = FALSE]
                            ELSE conversations[i]]
    /\ dbLast' = [NoDbOp EXCEPT !.op = "unstar", !.id = id, !.before = conversations]
    /\ UNCHANGED nextId

\* HistoryDatabase.cleanup_old_conversations(keep_recent)
CleanupOldConversations(keep_recent) ==
    LET keep_ids == KeepIds(conversations, keep_recent) IN
    /\ IF keep_ids = {}
       THEN /\ UNCHANGED conversations
            /\ dbLast' = [NoDbOp EXCEPT !.op = "cleanup", !.keep_recent = keep_recent,
                                         !.before = conversations]
       ELSE /\ conversations' = [id \in keep_ids |-> conversations[id]]
            /\ dbLast' = [NoDbOp EXCEPT !.op = "cleanup", !.keep_recent = keep_recent,
                                         !.before = conversations,
                                         !.deleted = Cardinality(DOMAIN conversations \ keep_ids)]
    /\ UNCHANGED nextId

\* a database with no conversation yet
HistIdle ==
    /\ conversations = <<>>
    /\ nextId = 1
    /\ dbLast = NoDbOp

\* ------------------------------------------------------- specifications

CtxInit ==
    /\ files = <<>>
    /\ working_dir \in {Cwd, LaunchDir}
    /\ ctxFs = CtxFsInit
    /\ ctxLast = NoOp
    /\ AgentIdle
    /\ HistIdle
    /\ ToolsIdle

CtxNext ==
    \/ \E path \in CtxPaths : AddFile(path) /\ UNCHANGED <<agentVars, toolVars, histVars>>
    \/ \E path \in CtxPaths : RemoveFile(path) /\ UNCHANGED <<agentVars, toolVars, histVars>>
    \/ Clear /\ UNCHANGED <<agentVars, toolVars, histVars>>
    \/ \E path \in CtxPaths, pattern \in {"**/*", "*"} :
          AddFolder(path, pattern) /\ UNCHANGED <<agentVars, toolVars, histVars>>
    \/ \E content \in {Tok(50, "b"), Tok(20, "s")} :
          CtxFileChanges(<<"/work", "/a.txt">>, content) /\ UNCHANGED <<agentVars, toolVars, histVars>>

SpecCtx == CtxInit /\ [][CtxNext]_vars

FolderNext ==
    \/ \E path \in FolderPaths : AddFolder(path, "**/*") /\ UNCHANGED <<agentVars, toolVars, histVars>>
    \/ \E path \in FolderFilePaths : AddFile(path) /\ UNCHANGED <<agentVars, toolVars, histVars>>
    \/ Clear /\ UNCHANGED <<agentVars, toolVars, histVars>>

SpecFolder == CtxInit /\ [][FolderNext]_vars

AgentInit == AgentIdle /\ CtxIdle /\ ToolsIdle /\ HistIdle

AgentNext ==
    \/ StartTurn /\ UNCHANGED <<ctxVars, toolVars, histVars>>
    \/ ProviderRaises /\ UNCHANGED <<ctxVars, toolVars, histVars>>
    \/ ProviderEmptyChoices /\ UNCHANGED <<ctxVars, toolVars, histVars>>
    \/ \E r \in ProviderResponses :
          ProviderResponds(r.content, r.calls, r.finish_reason) /\ UNCHANGED <<ctxVars, toolVars, histVars>>
    \/ ExecuteToolCall /\ UNCHANGED <<ctxVars, toolVars, histVars>>

SpecAgent == AgentInit /\ [][AgentNext]_vars

ToolsInit ==
    /\ \E notes \in NotesContents : disk = DiskInit(notes)
    /\ permission_callback \in BOOLEAN
    /\ vscode_protocol \in BOOLEAN
    /\ ide_bridge = NoBridge
    /\ connectTask = NoTask
    /\ pending_highlights = [p \in DiskPaths |-> <<>>]
    /\ toolLast = NoCall
    /\ peerDecided = [p \in DiskPaths |-> 0]
    /\ AgentIdle
    /\ HistIdle
    /\ CtxIdle

ToolsNext ==
    \/ \E path \in WritePaths, content \in WriteContents, answer \in BOOLEAN :
          WriteFile(path, content, answer) /\ UNCHANGED <<ctxVars, agentVars, histVars>>
    \/ \E c \in EditCalls, answer \in BOOLEAN, sendOk \in BOOLEAN :
          EditFile(c[1], c[2], c[3], answer, sendOk) /\ UNCHANGED <<ctxVars, agentVars, histVars>>
    \/ \E command \in Commands, answer \in BOOLEAN, o \in ProcessOutcomes :
          ExecuteBash(command, answer, o.timed_out, o.out, o.err, o.rc)
          /\ UNCHANGED <<ctxVars, agentVars, histVars>>
    \/ \E src \in PortSources : ConnectStart(src) /\ UNCHANGED <<ctxVars, agentVars, histVars>>
    \/ \E reachable \in BOOLEAN : ConnectOpen(reachable) /\ UNCHANGED <<ctxVars, agentVars, histVars>>
    \/ \E sendOk \in BOOLEAN : ConnectHello(sendOk) /\ UNCHANGED <<ctxVars, agentVars, histVars>>
    \/ \E response \in {"connected", "error", "raise"} :
          ConnectRecv(response) /\ UNCHANGED <<ctxVars, agentVars, histVars>>

SpecTools == ToolsInit /\ [][ToolsNext]_vars

BridgeInit ==
    /\ disk = DiskInit(<<"a", "NL", "b">>)
    /\ permission_callback \in BOOLEAN
    /\ vscode_protocol = FALSE
    /\ ide_bridge = NoBridge
    /\ connectTask = NoTask
    /\ pending_highlights = [p \in DiskPaths |-> <<>>]
    /\ toolLast = NoCall
    /\ peerDecided = [p \in DiskPaths |-> 0]
    /\ AgentIdle
    /\ HistIdle
    /\ CtxIdle

FilesInit ==
    /\ disk = DiskInit(<<"a", "NL", "b">>)
    /\ permission_callback \in BOOLEAN
    /\ vscode_protocol \in BOOLEAN
    /\ ide_bridge \in IF vscode_protocol THEN {NoBridge} ELSE {NoBridge, ConnectedBridge}
    /\ connectTask = IF ide_bridge = NoBridge THEN NoTask
                     ELSE [pc |-> "done", returned |-> "true", why |-> "connected",
                           src |-> [env |-> "7000", lock |-> "7001"]]
    /\ pending_highlights = [p \in DiskPaths |-> <<>>]
    /\ toolLast = NoCall
    /\ peerDecided = [p \in DiskPaths |-> 0]
    /\ AgentIdle
    /\ HistIdle
    /\ CtxIdle

FilesNext ==
    \/ \E path \in {PNotes}, content \in FileContents, answer \in BOOLEAN :
          WriteFile(path, content, answer) /\ UNCHANGED <<ctxVars, agentVars, histVars>>
    \/ \E c \in FileEditCalls, answer \in BOOLEAN, sendOk \in BOOLEAN :
          EditFile(c[1], c[2], c[3], answer, sendOk) /\ UNCHANGED <<ctxVars, agentVars, histVars>>

SpecFiles == FilesInit /\ [][FilesNext]_vars

\* execute_bash, called by the model and by the search tools; a search command
\* ends past the timeout, or with these lines on stdout (stderr goes to
\* /dev/null) and this exit code
BashNext ==
    \/ \E command \in BashCommands, answer \in BOOLEAN, o \in ProcessOutcomes :
          ExecuteBash(command, answer, o.timed_out, o.out, o.err, o.rc)
          /\ UNCHANGED <<ctxVars, agentVars, histVars>>
    \/ \E tool \in {"grep_files", "find_files"}, pattern \in SearchPatterns, answer \in BOOLEAN,
          o \in { [timed_out |-> TRUE, out |-> <<>>, rc |-> 0],
                  [timed_out |-> FALSE, out |-> <<>>, rc |-> 1],
                  [timed_out |-> FALSE, out |-> <<"a", "NL">>, rc |-> 0],
                  [timed_out |-> FALSE, out |-> <<"Error:", "a", "NL">>, rc |-> 0] } :
          SearchFiles(tool, pattern, answer, o) /\ UNCHANGED <<ctxVars, agentVars, histVars>>

SpecBash == ToolsInit /\ [][BashNext]_vars

\* edit_file calls on two files, made while the batches are watched
BatchNext ==
    \E c \in { <<PNotes, (<<"a">>), (<<"b">>)>>,
                <<PNotes, (<<"b">>), (<<"a">>)>>,
                <<PNotes, (<<"q">>), (<<"b">>)>>,
                <<PPasswd, (<<"a">>), (<<"b">>)>>,
                <<PPasswd, (<<"b">>), (<<"a">>)>> },
       answer \in BOOLEAN, sendOk \in BOOLEAN :
        EditFile(c[1], c[2], c[3], answer, sendOk) /\ UNCHANGED <<ctxVars, agentVars, histVars>>

SpecBatch == FilesInit /\ [][BatchNext]_vars

\* the connect task, with edit_file and open_diff calls made while it runs.
\* discover_port is given every way its two sources can stand to each other;
\* for open_diff, self.ws.recv() gives a message of the named type or a text
\* that is not JSON within the 30 seconds, gives nothing in time, or finds the
\* connection closed
ConnectNext ==
    \/ \E src \in PortSources \cup { [env |-> "abc", lock |-> "7001"],
                                      [env |-> "unset", lock |-> "7001"],
                                      [env |-> "7000", lock |-> "missing"],
                                      [env |-> "7000", lock |-> "corrupt"] } :
          ConnectStart(src) /\ UNCHANGED <<ctxVars, agentVars, histVars>>
    \/ \E reachable \in BOOLEAN :
          ConnectOpen(reachable) /\ UNCHANGED <<ctxVars, agentVars, histVars>>
    \/ \E sendOk \in BOOLEAN : ConnectHello(sendOk) /\ UNCHANGED <<ctxVars, agentVars, histVars>>
    \/ \E response \in {"connected", "error", "raise"} :
          ConnectRecv(response) /\ UNCHANGED <<ctxVars, agentVars, histVars>>
    \/ \E c \in BridgeEditCalls, answer \in BOOLEAN, sendOk \in BOOLEAN :
          EditFile(c[1], c[2], c[3], answer, sendOk)
          /\ UNCHANGED <<ctxVars, agentVars, histVars>>
    \/ \E path \in {PNotes, PPasswd}, sendOk \in BOOLEAN,
          response \in {"diffAccepted", "diffRejected", "fileChanged", "not json",
                        "timeout", "closed"} :
          OpenDiff(path, sendOk, response) /\ UNCHANGED <<ctxVars, agentVars, histVars>>

SpecConnect == BridgeInit /\ [][ConnectNext]_vars

HistInit == HistIdle /\ AgentIdle /\ CtxIdle /\ ToolsIdle

HistNext ==
    \/ CreateConversation /\ UNCHANGED <<ctxVars, agentVars, toolVars>>
    \/ \E id \in 1..MaxConversations :
          StarConversation(id) /\ UNCHANGED <<ctxVars, agentVars, toolVars>>
    \/ \E id \in 1..MaxConversations :
          UnstarConversation(id) /\ UNCHANGED <<ctxVars, agentVars, toolVars>>
    \/ \E keep_recent \in KeepRecents :
          CleanupOldConversations(keep_recent) /\ UNCHANGED <<ctxVars, agentVars, toolVars>>

SpecHistory == HistInit /\ [][HistNext]_vars

BridgeNext ==
    \/ \E c \in BridgeEditCalls, answer \in BOOLEAN, sendOk \in BOOLEAN :
          EditFile(c[1], c[2], c[3], answer, sendOk) /\ UNCHANGED <<ctxVars, agentVars, histVars>>
    \/ \E src \in PortSources : ConnectStart(src) /\ UNCHANGED <<ctxVars, agentVars, histVars>>
    \/ \E reachable \in BOOLEAN : ConnectOpen(reachable) /\ UNCHANGED <<ctxVars, agentVars, histVars>>
    \/ \E sendOk \in BOOLEAN : ConnectHello(sendOk) /\ UNCHANGED <<ctxVars, agentVars, histVars>>
    \/ \E response \in {"connected", "error", "raise"} :
          ConnectRecv(response) /\ UNCHANGED <<ctxVars, agentVars, histVars>>
    \/ \E file_path \in {Resolve(PNotes)} :
          PeerDecides(file_path) /\ UNCHANGED <<ctxVars, agentVars, histVars>>

SpecBridge == BridgeInit /\ [][BridgeNext]_vars

\* ======================================================== ContextManager claims

\* C4: an add_file of a readable text file whose token count, added to the
\* running total, exceeds the budget returns BudgetExceeded and leaves the
\* entries (keys and contents) and total_tokens() as they were.
C4_BudgetExceededNoMutation ==
    (/\ ctxLast.op = "add"
     /\ ctxLast.res \in {"Added", "BudgetExceeded"}
     /\ get_total_tokens(ctxLast.before) + ctxLast.tokens > TokenLimit)
    => (/\ ctxLast.res = "BudgetExceeded"
        /\ files = ctxLast.before
        /\ get_total_tokens(files) = get_total_tokens(ctxLast.before))

\* C4 witness: the scenario of the claim, a 50-token file refused on top of a
\* 100-token entry, the total staying 100.
C4_Witness ==
    /\ ctxLast.op = "add"
    /\ ctxLast.res = "BudgetExceeded"
    /\ ctxLast.tokens = 50
    /\ get_total_tokens(ctxLast.before) = 100
    /\ get_total_tokens(files) = 100

\* C7: add(path) that succeeds, followed at once by remove(path) with the same
\* path string, restores the entries (and so total_tokens()) to what they were
\* before the add.
C7_AddRemoveRoundTrip ==
    (ctxLast.op = "remove" /\ ctxLast.rt)
    => (/\ files = ctxLast.rtBefore
        /\ get_total_tokens(files) = get_total_tokens(ctxLast.rtBefore))

\* C9: the sum of the entries' token counts never exceeds the budget.
C9_TotalWithinBudget == get_total_tokens(files) <= TokenLimit

\* C9 witness: an add has overwritten an entry with a text of another length
\* and the context holds more than one entry.
C9_Witness ==
    /\ ctxLast.op = "add"
    /\ ctxLast.res = "Added"
    /\ Cardinality(DOMAIN files) > 1
    /\ \E p \in DOMAIN ctxLast.before :
          count_tokens(files[p]) # count_tokens(ctxLast.before[p])

\* C23: the entries are keyed by the resolved absolute path of the file: every
\* key is an absolute path in normal form, and an add that succeeds leaves
\* exactly one entry for the file it settled on, whatever spelling was passed.
C23_OneEntryPerFile ==
    /\ \A k \in DOMAIN files : IsAbsolute(k) /\ NormFrom(<<>>, k) = k
    /\ (ctxLast.op = "add" /\ ctxLast.res = "Added")
          => DOMAIN files = DOMAIN ctxLast.before
                              \cup {AddCandidate(ctxFs, working_dir, ctxLast.path)}

\* the same file added through two spellings, one entry afterwards
C23_Witness ==
    /\ ctxLast.op = "add"
    /\ ctxLast.res = "Added"
    /\ ctxLast.prev # <<>>
    /\ ctxLast.prev # ctxLast.path
    /\ AddCandidate(ctxFs, working_dir, ctxLast.prev)
          = AddCandidate(ctxFs, working_dir, ctxLast.path)
    /\ Cardinality(DOMAIN files) = 1

\* the regular files an add_folder call matched
MatchedFiles ==
    {p \in Glob(ctxFs, Resolve(ctxLast.path), ctxLast.pattern) : ctxFs[p].kind # "dir"}

\* C30: add_folder tries every matching regular file whether or not earlier
\* ones failed; the count it reports is the number of files whose add
\* succeeded, those files are entries afterwards, no entry is rolled back, and
\* at most 5 error lines are reported.
C30_AddFolderCountsSuccesses ==
    (ctxLast.op = "add_folder" /\ ctxLast.res = "AddedFolder")
        => /\ ctxLast.added + ctxLast.nerrors = Cardinality(MatchedFiles)
           /\ Cardinality(DOMAIN files \ DOMAIN ctxLast.before) <= ctxLast.added
           /\ ctxLast.added <= Cardinality(MatchedFiles \cap DOMAIN files)
           /\ DOMAIN ctxLast.before \subseteq DOMAIN files
           /\ DOMAIN files \subseteq DOMAIN ctxLast.before \cup MatchedFiles
           /\ ctxLast.shown <= 5
           /\ ctxLast.shown <= ctxLast.nerrors
           /\ ctxLast.nerrors <= 5 => ctxLast.shown = ctxLast.nerrors

\* a file added after another file of the same call had failed
C30_Witness ==
    /\ ctxLast.op = "add_folder"
    /\ ctxLast.res = "AddedFolder"
    /\ ctxLast.late >= 1
    /\ ctxLast.nerrors >= 2
    /\ <<"/work", "/pkg", "/m.py">> \in DOMAIN files \ DOMAIN ctxLast.before

\* C39: adding again a file that is an entry already, its content unchanged,
\* succeeds whenever the context is within budget, and leaves the entries and
\* total_tokens() as they were.
C39_ReAddIdempotent ==
    (/\ ctxLast.op = "add"
     /\ ctxLast.same
     /\ get_total_tokens(ctxLast.before) <= TokenLimit)
        => /\ ctxLast.res = "Added"
           /\ files = ctxLast.before
           /\ get_total_tokens(files) = get_total_tokens(ctxLast.before)

\* the candidates add(path) tries, in order: the path itself when absolute, the
\* path under the working directory, the path under the cwd
CandidatesInOrder(wd, path) ==
    (IF IsAbsolute(path) THEN <<NormFrom(<<>>, path)>> ELSE <<>>)
      \o <<NormFrom(<<>>, Join(wd, path)), NormFrom(<<>>, Join(Cwd, path))>>

\* the positions of the candidates that are existing regular files
RegularCandidates(fs, wd, path) ==
    {i \in 1..Len(CandidatesInOrder(wd, path)) :
        /\ CandidatesInOrder(wd, path)[i] \in DOMAIN fs
        /\ fs[CandidatesInOrder(wd, path)[i]].kind # "dir"}

\* C29: add(path) uses the first candidate that is an existing regular file:
\* when some candidate is a regular file, add does not answer "not found" or
\* "not a file", and what it adds is the first such candidate.
C29_FirstRegularFileWins ==
    (ctxLast.op = "add" /\ RegularCandidates(ctxFs, working_dir, ctxLast.path) # {})
        => /\ ctxLast.res \notin {"NotFound", "NotAFile"}
           /\ ctxLast.res = "Added" =>
                \E i \in RegularCandidates(ctxFs, working_dir, ctxLast.path) :
                    /\ \A j \in RegularCandidates(ctxFs, working_dir, ctxLast.path) : i <= j
                    /\ CandidatesInOrder(working_dir, ctxLast.path)[i] \in DOMAIN files

\* ================================================================ Agent claims

\* the assistant message at position i is followed by one tool message per
\* tool call, with the call's id, in call order, and by no further tool message
Answered(i) ==
    LET calls == messages[i].tool_calls IN
    /\ i + Len(calls) <= Len(messages)
    /\ \A k \in 1..Len(calls) :
          /\ messages[i + k].role = "tool"
          /\ messages[i + k].tool_call_id = calls[k].id
    /\ i + Len(calls) < Len(messages) => messages[i + Len(calls) + 1].role # "tool"

\* position of the user message that opened the turn under way (0: none yet)
TurnStart ==
    IF \E i \in 1..Len(messages) : messages[i].role = "user"
    THEN CHOOSE i \in 1..Len(messages) :
            /\ messages[i].role = "user"
            /\ \A j \in (i + 1)..Len(messages) : messages[j].role # "user"
    ELSE 0

\* C1: whenever the provider is about to be invoked again, or the turn has
\* ended, every assistant message of the history that carries tool calls is
\* followed by exactly one tool message per call, with that call's id, in the
\* order the calls were issued.
C1_OneToolMessagePerCall ==
    agentPc \in {"call_provider", "returned", "raised"}
    => \A i \in 1..Len(messages) :
          (messages[i].role = "assistant" /\ messages[i].tool_calls # <<>>) => Answered(i)

\* every response of the turn under way carried tool calls and no content
OnlyToolCallsThisTurn ==
    \A i \in (TurnStart + 1)..Len(messages) :
        messages[i].role = "assistant"
        => (messages[i].tool_calls # <<>> /\ messages[i].content \in {"None", ""})

\* C2: a turn makes at most 10 provider calls; a turn whose 10 provider calls
\* all came back with tool calls and no content ends with "Max iterations
\* reached", and that result is given only after exactly 10 provider calls.
C2_MaxIterationsReached ==
    /\ providerCalls <= max_iterations
    /\ (agentPc = "returned" /\ providerCalls = max_iterations /\ OnlyToolCallsThisTurn)
       => turnResult = "Max iterations reached"
    /\ (agentPc = "returned" /\ turnResult = "Max iterations reached")
       => providerCalls = max_iterations

\* the turn ended on a response without tool calls and without content
EndedOnEmptyResponse ==
    /\ agentPc \in {"returned", "raised"}
    /\ Len(messages) > 0
    /\ messages[Len(messages)].role = "assistant"
    /\ messages[Len(messages)].tool_calls = <<>>
    /\ messages[Len(messages)].content \in {"None", ""}

\* C13: a response with no tool calls and null or empty content ends the turn
\* with the EmptyModelResponse error raised to the caller, not with a returned
\* reply.
C13_EmptyModelResponseIsError ==
    EndedOnEmptyResponse => (agentPc = "raised" /\ turnResult = "EmptyModelResponse")

\* C14: a provider.chat that raises ends the turn at once with that error: the
\* failing step appends nothing and leaves chat by the exception, and the only
\* step that can follow is the start of a new turn, so the failed turn makes
\* no further provider call and runs no tool.
C14_TransportErrorAbortsTurn ==
    [][/\ turnResult' = "TransportError" => agentPc' = "raised"
       /\ (turnResult' = "TransportError" /\ turnResult # "TransportError")
          => messages' = messages
       /\ (agentPc = "raised" /\ turnResult = "TransportError")
          => (/\ messages' = Append(messages, UserMessage)
              /\ providerCalls' = 0
              /\ iteration' = 0)]_vars

\* C14 witness: the provider failed on the second call of a turn, after a round
\* of tools, and the turn stands aborted with one failed call counted.
C14_Witness ==
    /\ agentPc = "raised"
    /\ turnResult = "TransportError"
    /\ providerCalls = 2
    /\ messages[Len(messages)].role = "tool"

\* C15: while the tool loop of a response is under way at call k, the history
\* ends with that response followed by the tool messages of calls 1..k-1, in
\* the order listed: call k starts only after call k-1 returned and its tool
\* message was appended.
C15_ToolCallsInOrder ==
    agentPc = "exec_tools"
    => LET i == Len(messages) - (toolIdx - 1) IN
       /\ i >= 1
       /\ messages[i].role = "assistant"
       /\ toolIdx \in 1..Len(messages[i].tool_calls)
       /\ \A k \in 1..(toolIdx - 1) :
             /\ messages[i + k].role = "tool"
             /\ messages[i + k].tool_call_id = messages[i].tool_calls[k].id

\* C15 witness: the second call of a two-call response is about to run, the
\* first one answered.
C15_Witness ==
    /\ agentPc = "exec_tools"
    /\ toolIdx = 2
    /\ messages[Len(messages)].role = "tool"
    /\ messages[Len(messages) - 1].role = "assistant"
    /\ Len(messages[Len(messages) - 1].tool_calls) = 2
    /\ messages[Len(messages)].tool_call_id = messages[Len(messages) - 1].tool_calls[1].id

\* C21: execute_tool never raises: no turn is left by an exception of a tool
\* call, whatever the tool name and the arguments (the empty object put in for
\* unparsable JSON included); the error reaches the model as result text.
C21_ExecuteToolNeverRaises ==
    ~(agentPc = "raised" /\ turnResult = "TypeError")

\* C27: a response whose choices list is empty ends the turn with a
\* malformed-response error, never with the unhandled IndexError of
\* response["choices"][0].
C27_EmptyChoicesReported ==
    turnResult # "IndexError"

\* the tool messages appended in the turn under way
ToolExecutionsThisTurn ==
    Cardinality({i \in (TurnStart + 1)..Len(messages) : messages[i].role = "tool"})

\* C28: between rounds and at the end of a turn, the tool-executed callback
\* has been invoked once for every tool executed in the turn.
C28_CallbackOncePerTool ==
    agentPc \in {"call_provider", "returned"}
    => Len(ToolExecutedCalls) = ToolExecutionsThisTurn

\* ================================================================ Tools claims

\* the file edit_file was asked to edit, as it was before the call
FileBefore == toolLast.before[toolLast.resolved]

\* edit_file got past its own checks: the file was read and holds old_text
EditDispatched ==
    /\ toolLast.tool = "edit_file"
    /\ FileBefore.kind = "file"
    /\ ~IsPrefix(<<"Error:">>, FileBefore.content)
    /\ Contains(FileBefore.content, toolLast.old_text)

\* the TextNotFound result
IsTextNotFound(result) == IsPrefix(<<"Error:", " Text not found in file: ">>, result)

\* C3: edit_file on a readable file whose content does not hold old_text (as
\* the tool matches it, escapes decoded) returns the TextNotFound result,
\* writes nothing and sends no edit to the IDE bridge or to VSCode, in every
\* mode.
C3_TextNotFoundNoWrite ==
    (/\ toolLast.tool = "edit_file"
     /\ FileBefore.kind = "file"
     /\ ~Contains(FileBefore.content, toolLast.old_text))
    => (/\ IsTextNotFound(toolLast.result)
        /\ disk = toolLast.before
        /\ toolLast.sent = NoMsg
        /\ toolLast.vscode = NoMsg)

\* the resolved path is a protected directory or lies inside one
UnderProtected(file_path) ==
    \E i \in 1..Len(protected_dirs) :
        /\ IsPrefix(protected_dirs[i], file_path)
        /\ \/ Len(file_path) = Len(protected_dirs[i])
           \/ file_path[Len(protected_dirs[i]) + 1] \notin SuffixChunks

\* C5: write_file to a path that resolves under a protected prefix is rejected
\* with the blocked result, the permission gate is never invoked and nothing is
\* written or created.
C5_ProtectedWriteBlocked ==
    (toolLast.tool = "write_file" /\ UnderProtected(toolLast.resolved))
    => (/\ IsPrefix(<<"BLOCKED: Cannot write to system directory ">>, toolLast.result)
        /\ toolLast.gate = 0
        /\ disk = toolLast.before)

\* C5 witness: a write to /home/../etc/hosts, which resolves to /etc/hosts, was
\* blocked without the gate being asked.
C5_Witness ==
    /\ toolLast.tool = "write_file"
    /\ toolLast.path = PHostsDots
    /\ toolLast.resolved = <<"/etc", "/hosts">>
    /\ IsPrefix(<<"BLOCKED: Cannot write to system directory ">>, toolLast.result)
    /\ toolLast.gate = 0
    /\ permission_callback

IsBlockedCommand(result) ==
    IsPrefix(<<"BLOCKED: Command contains potentially dangerous pattern ">>, result)

\* C6: the filter of execute_bash blocks `rm -rf /` before the gate and before
\* any process is spawned, and lets `rm -rf ./build` through to the permission
\* gate.
C6_FilterRootNotBuild ==
    /\ (toolLast.tool = "execute_bash" /\ toolLast.command = CmdRmRfRoot)
       => (IsBlockedCommand(toolLast.result) /\ toolLast.gate = 0 /\ ~toolLast.spawned)
    /\ (toolLast.tool = "execute_bash" /\ toolLast.command = CmdRmRfBuild)
       => (~IsBlockedCommand(toolLast.result) /\ toolLast.gate = 1)

\* C6 witness: `rm -rf ./build` was put to the gate, approved and run, and the
\* build directory written before is gone.
C6_Witness ==
    /\ toolLast.tool = "execute_bash"
    /\ toolLast.command = CmdRmRfBuild
    /\ toolLast.answer = "yes"
    /\ toolLast.spawned
    /\ toolLast.before[Resolve(POut)].kind = "file"
    /\ disk[Resolve(POut)].kind = "none"

\* C8: when the discovered port is unreachable, connect() returns false and
\* leaves the bridge disconnected, and every later edit_file that gets past its
\* own checks goes by the direct path: nothing is sent to the bridge, the gate
\* is asked once, and unless it refuses the file is written with the first
\* occurrence replaced and the call succeeds.
C8_UnreachableFallsBackToDirect ==
    (connectTask.why = "unreachable")
    => (/\ connectTask.returned = "false"
        /\ ~ide_bridge.connected
        /\ ide_bridge.ws = "None"
        /\ (EditDispatched /\ toolLast.connect = "false")
           => (/\ toolLast.sent = NoMsg
               /\ toolLast.gate = 1
               /\ pending_highlights[toolLast.resolved] = <<>>
               /\ toolLast.answer = "no" => disk = toolLast.before
               /\ toolLast.answer # "no"
                  => (/\ toolLast.result = <<"Successfully edited ">>
                      /\ disk = WriteText(toolLast.before, toolLast.resolved,
                                   ReplaceFirst(FileBefore.content, toolLast.old_text,
                                                toolLast.new_text)))))

\* C8 witness: connect() failed on an unreachable port and an edit_file made
\* afterwards was approved at the gate and rewrote the file.
C8_Witness ==
    /\ connectTask.why = "unreachable"
    /\ ide_bridge.port = "7000"
    /\ EditDispatched
    /\ toolLast.connect = "false"
    /\ toolLast.answer = "yes"
    /\ toolLast.result = <<"Successfully edited ">>
    /\ disk # toolLast.before

\* C11: with a permission callback configured, every edit_file call that
\* changes the disk asked the permission gate first and was answered yes,
\* whether or not the IDE bridge is connected.
C11_EditGatedBeforeWrite ==
    (toolLast.tool = "edit_file" /\ disk # toolLast.before)
    => (permission_callback => (toolLast.gate = 1 /\ toolLast.answer = "yes"))

\* C12: an execute_bash command that matches a dangerous pattern returns the
\* blocked result with the permission gate not asked and no process spawned.
C12_BlockedBeforeGateAndSpawn ==
    (toolLast.tool = "execute_bash" /\ MatchingPatterns(toolLast.command) # {})
    => (/\ IsBlockedCommand(toolLast.result)
        /\ toolLast.gate = 0
        /\ toolLast.answer = "none"
        /\ ~toolLast.spawned
        /\ disk = toolLast.before)

\* C12 witness: `cat /etc/passwd` was blocked on the pattern /etc/passwd with a
\* callback configured and never asked.
C12_Witness ==
    /\ toolLast.tool = "execute_bash"
    /\ toolLast.command = CmdCatPasswd
    /\ permission_callback
    /\ toolLast.gate = 0
    /\ toolLast.result =
          <<"BLOCKED: Command contains potentially dangerous pattern ">> \o dangerous_patterns[10]

\* C16: a process spawned by execute_bash that has not finished when the
\* timeout elapses is killed and the call returns the Timeout result; a process
\* that finished in time is not killed.
C16_TimeoutKillsAndReturns ==
    (toolLast.tool = "execute_bash" /\ toolLast.spawned)
    => (/\ toolLast.timed_out
           => (/\ toolLast.killed
               /\ toolLast.result = <<"Error:", " Command timed out after ">>)
        /\ ~toolLast.timed_out => ~toolLast.killed)

\* C16 witness: an approved `ls -l` ran past the timeout, was killed and the
\* Timeout result returned.
C16_Witness ==
    /\ toolLast.tool = "execute_bash"
    /\ toolLast.command = CmdLs
    /\ toolLast.answer = "yes"
    /\ toolLast.timed_out
    /\ toolLast.killed
    /\ IsPrefix(<<"Error:", " Command timed out after ">>, toolLast.result)

\* an edit_file call whose proposeDiff message the socket refused
SendFailedInEdit == toolLast.tool = "edit_file" /\ toolLast.send = "failed"

\* C17: when the send of an edit_file call fails, the bridge is disconnected,
\* the call still returns the success result with the edit on disk, the bridge
\* stays disconnected from then on, and every edit_file made while it is
\* disconnected goes by the direct path (gate asked, nothing sent, no
\* highlight kept).
C17_SendFailureFallsBack ==
    /\ [](SendFailedInEdit
          => (/\ ~ide_bridge.connected
              /\ IsPrefix(<<"Successfully edited ">>, toolLast.result)
              /\ disk = WriteText(toolLast.before, toolLast.resolved,
                           ReplaceFirst(FileBefore.content, toolLast.old_text,
                                        toolLast.new_text))))
    /\ [][(ide_bridge.ws = "open" /\ ~ide_bridge.connected)
          => (/\ ~ide_bridge'.connected
              /\ (toolLast' # toolLast /\ toolLast'.tool = "edit_file")
                 => (/\ toolLast'.sent = NoMsg
                     /\ toolLast'.send = "none"
                     /\ pending_highlights' = pending_highlights
                     /\ disk' # disk => toolLast'.gate = 1))]_vars

\* C17 witness: the send of an edit failed, the edit is on disk and the bridge
\* is disconnected with its socket still held.
C17_Witness ==
    /\ SendFailedInEdit
    /\ ~ide_bridge.connected
    /\ ide_bridge.ws = "open"
    /\ disk # toolLast.before
    /\ IsPrefix(<<"Successfully edited ">>, toolLast.result)

\* C18: at the step on which connect() completes, the bridge is connected if
\* and only if connect() returns true, and it returns true only on a
\* `connected` acknowledgment.
C18_ConnectedIffAcknowledged ==
    [][(connectTask.pc # "done" /\ connectTask'.pc = "done")
       => (/\ ide_bridge'.connected <=> connectTask'.returned = "true"
           /\ connectTask'.returned = "true" <=> connectTask'.why = "connected")]_vars

\* C10: when the permission gate answers false, write_file, execute_bash and
\* edit_file (direct path) return the PermissionDenied result and have no
\* effect: no file written, no directory created, no process spawned, nothing
\* sent.
C10_DeniedNoEffect ==
    (/\ toolLast.tool \in {"write_file", "execute_bash", "edit_file"}
     /\ toolLast.gate = 1
     /\ toolLast.answer = "no")
    => (/\ toolLast.result = <<"Permission denied">>
        /\ disk = toolLast.before
        /\ ~toolLast.spawned
        /\ toolLast.sent = NoMsg
        /\ toolLast.vscode = NoMsg)

\* C10 witness: a write_file into a directory that does not exist was refused
\* at the gate, and the directory still does not exist.
C10_Witness ==
    /\ toolLast.tool = "write_file"
    /\ toolLast.path = POut
    /\ toolLast.answer = "no"
    /\ toolLast.result = <<"Permission denied">>
    /\ disk[Resolve(<<".", "/build">>)].kind = "none"

\* a text with nothing for the escape normalisation to decode
NoBackslash(s) == \A i \in 1..Len(s) : s[i] # "\\"

\* C22: when edit_file succeeds, the file's content afterwards is its prior
\* content with exactly the leftmost occurrence of old_text replaced by
\* new_text, everything else as it was (for texts without an escape to decode).
C22_FirstOccurrenceReplaced ==
    (/\ toolLast.tool = "edit_file"
     /\ IsPrefix(<<"Successfully edited ">>, toolLast.result)
     /\ NoBackslash(toolLast.raw[1])
     /\ NoBackslash(toolLast.raw[2]))
        => LET prior == toolLast.before[toolLast.resolved].content
               after == disk[toolLast.resolved].content
               old == toolLast.raw[1]
               new == toolLast.raw[2]
           IN \E i \in 1..Len(prior) :
                 /\ OccursAt(old, prior, i)
                 /\ \A j \in 1..(i - 1) : ~OccursAt(old, prior, j)
                 /\ after = SubSeq(prior, 1, i - 1) \o new
                              \o SubSeq(prior, i + Len(old), Len(prior))

\* C25: after write_file(path, content) returns success, read_file(path)
\* returns exactly content, for every content without a backslash, non-ASCII
\* characters included.
C25_WriteThenReadReturnsContent ==
    (/\ toolLast.tool = "write_file"
     /\ IsPrefix(<<"Successfully wrote to ">>, toolLast.result)
     /\ NoBackslash(toolLast.raw[1]))
        => read_file(disk, toolLast.path) = toolLast.raw[1]

\* the characters str.split and the shell treat as white space
Whitespace == {" ", "\t", "\n"}

NotWhitespace(c) == c \notin Whitespace

\* a text with its case folded and all white space removed
FoldedNoWhitespace(s) == SelectSeq([i \in 1..Len(s) |-> LowerChar(s[i])], NotWhitespace)

\* C24: execute_bash blocks every command that, with all white space (spaces,
\* tabs, newlines) removed and case folded, contains a destructive pattern
\* normalised the same way.
C24_WhitespaceVariantsBlocked ==
    (/\ toolLast.tool = "execute_bash"
     /\ \E i \in 1..Len(dangerous_patterns) :
           Contains(FoldedNoWhitespace(toolLast.command),
                    FoldedNoWhitespace(dangerous_patterns[i])))
        => IsPrefix(<<"BLOCKED: Command contains potentially dangerous pattern ">>,
                    toolLast.result)

\* C40: edit_file reports success whenever the file is readable text that
\* holds old_text and permission is not refused, whatever the text is, a text
\* that begins with the characters "Error:" included.
C40_ReadableFileNeverAnError ==
    (/\ toolLast.tool = "edit_file"
     /\ FileBefore.kind = "file"
     /\ Contains(FileBefore.content, toolLast.old_text)
     /\ toolLast.answer # "no")
        => IsPrefix(<<"Successfully edited ">>, toolLast.result)

\* C37: no file under a protected system prefix is written by write_file or
\* edit_file: a call on such a path gets the blocked result of the static
\* filter and leaves the disk as it was, on the bridge path and on the direct
\* path alike.
C37_ProtectedNeverWritten ==
    (/\ toolLast.tool \in {"write_file", "edit_file"}
     /\ UnderProtected(toolLast.resolved))
        => /\ disk = toolLast.before
           /\ IsPrefix(<<"BLOCKED: Cannot write to system directory ">>, toolLast.result)

\* C34: grep_files and find_files fail as the execute_bash call they delegate
\* to fails: when that call is blocked, refused or timed out the search tool
\* returns that same result, not a "no matches" result, and when the command
\* printed matches the search tool returns that output.
C34_SearchFailsAsExecuteBash ==
    toolLast.tool \in {"grep_files", "find_files"}
        => /\ (\/ IsBlockedCommand(toolLast.delegated)
               \/ toolLast.delegated = <<"Permission denied">>
               \/ toolLast.timed_out)
                  => toolLast.result = toolLast.delegated
           /\ (toolLast.spawned /\ ~toolLast.timed_out /\ toolLast.raw[1] # <<>>)
                  => toolLast.result = <<"Output:", "NL">> \o toolLast.raw[1]

\* C38: write_file's static filter blocks a resolved path if and only if the
\* path is a protected directory or lies inside one; a path that only shares
\* leading characters with a protected directory's name is not blocked.
C38_BlockedIffUnderProtected ==
    toolLast.tool = "write_file"
        => (IsPrefix(<<"BLOCKED: Cannot write to system directory ">>, toolLast.result)
              <=> UnderProtected(toolLast.resolved))

\* the port the two sources yield when the environment variable comes first
PortOf(src) ==
    IF src.env \in {"7000", "7001"} THEN src.env
    ELSE IF src.lock \in {"7000", "7001"} THEN src.lock
    ELSE "None"

\* C33: the port is the environment variable's whenever that holds a valid
\* integer, whatever the lock file says, and the lock file's port otherwise;
\* when neither yields a port connect() returns false, no socket is opened, and
\* the bridge stays disconnected from then on.
C33_PortFromEnvThenLock ==
    connectTask.pc # "unstarted"
        => /\ ide_bridge.port = PortOf(connectTask.src)
           /\ PortOf(connectTask.src) = "None"
                => /\ connectTask.pc = "done"
                   /\ connectTask.returned = "false"
                   /\ ide_bridge.ws = "None"
                   /\ ~is_connected(ide_bridge)
                   /\ toolLast.send = "none"

\* C33 witness: both sources held a port, the environment variable's was taken
\* and connect() went on to open the socket
C33_Witness ==
    /\ connectTask.src = [env |-> "7000", lock |-> "7001"]
    /\ ide_bridge.port = "7000"
    /\ ide_bridge.ws = "open"

\* C36: while connect() has not yet received the `connected` acknowledgment,
\* is_connected() is false, and an edit_file made before connect() has returned
\* does not go through the bridge.
C36_NotConnectedWhileConnecting ==
    /\ connectTask.pc \in {"opening", "hello", "waiting"} => ~is_connected(ide_bridge)
    /\ (toolLast.tool = "edit_file" /\ toolLast.connect = "none")
          => (toolLast.send = "none" /\ toolLast.sent = NoMsg)

\* C31: with the bridge connected, every edit_file that succeeds over the
\* bridge appends its edit to the batch of its own file and to no other, and
\* sends exactly one proposeDiff that carries the whole batch of that file, in
\* call order, with the edit already on disk; a call that adds no edit sends
\* nothing. From empty batches, the k-th such call on a file so sends the k
\* edits made to it.
C31_WholeBatchOfTheFileSent ==
    [][LET f == toolLast'.resolved
           n == Len(pending_highlights[f])
       IN IF pending_highlights' # pending_highlights
          THEN /\ toolLast'.tool = "edit_file"
               /\ Len(pending_highlights'[f]) = n + 1
               /\ SubSeq(pending_highlights'[f], 1, n) = pending_highlights[f]
               /\ pending_highlights'[f][n + 1].oldText = toolLast'.old_text
               /\ pending_highlights'[f][n + 1].newText = toolLast'.new_text
               /\ \A g \in DOMAIN pending_highlights :
                     g # f => pending_highlights'[g] = pending_highlights[g]
               /\ toolLast'.send = "ok"
                     => /\ toolLast'.sent = [type |-> "proposeDiff", file |-> f,
                                             edits |-> pending_highlights'[f]]
                        /\ disk'[f].content =
                              ReplaceFirst(read_file(disk, toolLast'.path),
                                           toolLast'.old_text, toolLast'.new_text)
          ELSE toolLast' # toolLast => toolLast'.sent = NoMsg]_vars

\* C31 witness: the second edit of notes.txt was sent in a batch of two while
\* /etc/passwd has a batch of its own
C31_Witness ==
    /\ toolLast.tool = "edit_file"
    /\ toolLast.resolved = Resolve(PNotes)
    /\ toolLast.send = "ok"
    /\ Len(toolLast.sent.edits) = 2
    /\ toolLast.sent.edits[1].oldText = <<"a">>
    /\ toolLast.sent.edits[2].oldText = <<"b">>
    /\ pending_highlights[Resolve(PPasswd)] # <<>>

\* C32: open_diff returns true only when diffAccepted arrives before the
\* timeout; a diffRejected, the timeout and a bridge that is not connected give
\* false; open_diff never raises
C32_OpenDiffTrueOnlyOnAccept ==
    toolLast.tool = "open_diff"
        => /\ toolLast.result \in {<<"True">>, <<"False">>}
           /\ toolLast.result = <<"True">> => toolLast.response = "diffAccepted"
           /\ toolLast.response \in {"diffRejected", "timeout", "none"}
                  => toolLast.result = <<"False">>

\* the tool message at position j answers a call of the nearest assistant
\* message before it
AnswersNearestAssistant(j) ==
    \E i \in 1..(j - 1) :
        /\ messages[i].role = "assistant"
        /\ \A m \in (i + 1)..(j - 1) : messages[m].role # "assistant"
        /\ \E k \in 1..Len(messages[i].tool_calls) :
              messages[j].tool_call_id = messages[i].tool_calls[k].id

\* C35: every time chat is entered the history it starts from is well formed:
\* each assistant message with tool calls is followed by one tool message per
\* call before any later user or assistant message, and each tool message
\* answers a call of the nearest assistant message before it, also after turns
\* that ended with an exception of the provider or of a tool
C35_HistoryWellFormedAtEntry ==
    [][(/\ agentPc \in {"idle", "returned", "raised"}
        /\ messages' = Append(messages, UserMessage))
       => /\ \A i \in 1..Len(messages) :
                (messages[i].role = "assistant" /\ messages[i].tool_calls # <<>>)
                    => Answered(i)
          /\ \A j \in 1..Len(messages) :
                messages[j].role = "tool" => AnswersNearestAssistant(j)]_vars

\* ============================================================== History claims

\* C26: cleanup_old_conversations(keep_recent) never deletes a starred
\* conversation: every conversation that was starred when the cleanup ran is
\* still there afterwards.
C26_StarredSurviveCleanup ==
    dbLast.op = "cleanup"
        => \A id \in DOMAIN dbLast.before :
              dbLast.before[id].starred => id \in DOMAIN conversations

\* ================================================================ Bridge claims

\* how many tokens of content come before the start of the given line, -1 when
\* the content has no such line
LineStartIdx(content, line) ==
    IF line = 0 THEN 0
    ELSE LET ks == {k \in 1..Len(content) :
                       content[k] = "NL" /\ CountNewlines(SubSeq(content, 1, k)) = line}
         IN IF ks = {} THEN -1 ELSE CHOOSE k \in ks : TRUE

\* how many tokens of content come before the position, -1 when the position
\* does not lie in the content
TokIdx(content, pos) ==
    LET k0 == LineStartIdx(content, pos.line) IN
    IF k0 < 0 THEN -1
    ELSE LET ks == {k \in k0..Len(content) :
                       /\ StrLen(SubSeq(content, k0 + 1, k)) = pos.character
                       /\ CountNewlines(SubSeq(content, k0 + 1, k)) = 0}
         IN IF ks = {} THEN -1 ELSE CHOOSE k \in ks : \A j \in ks : k <= j

\* the range of the edit, read against content, holds exactly its new text
Delimits(content, edit) ==
    LET from == TokIdx(content, edit.start)
        to == TokIdx(content, edit.end)
    IN /\ from >= 0
       /\ to >= from
       /\ SubSeq(content, from + 1, to) = edit.newText

\* C19: every edit of every batch sent by proposeDiff has a range that, read
\* against the file as it is on disk when the batch is sent, holds exactly that
\* edit's new text, the edits kept from earlier calls included.
C19_RangesFitCurrentContent ==
    (toolLast.tool = "edit_file" /\ toolLast.sent # NoMsg)
    => \A i \in 1..Len(toolLast.sent.edits) :
          Delimits(disk[toolLast.sent.file].content, toolLast.sent.edits[i])

\* C20: the pending edits of a file hold none that the IDE has accepted or
\* rejected (the batch is emptied on the IDE's decision), and no proposeDiff
\* carries an edit that was decided before it was sent.
C20_BatchEmptiedOnDecision ==
    /\ \A file_path \in DiskPaths : peerDecided[file_path] = 0
    /\ toolLast.resent = 0

====
